---- MODULE Spec2Model ----
(***************************************************************************)
(* Model of the OrangeHRM page-object harness: the wait engine             *)
(* (WebDriverWait.until as the page objects use it), BasePage, LoginPage,  *)
(* and the creation of browser profile directories.                        *)
(*                                                                         *)
(* One test thread drives one browser session.  A call is a stack of       *)
(* frames; every session command is a frame of its own, so that the        *)
(* application can change the document between two commands and the        *)
(* session can fail on any of them.  Time is counted in ticks of one       *)
(* WebDriverWait poll interval (0.5 s) since the start of the current      *)
(* top-level call.                                                         *)
(***************************************************************************)
EXTENDS Integers, Sequences, FiniteSets, TLC

VARIABLES
    app,      \* the web application as the session sees it (URL, fields, document flags)
    stack,    \* call stack of the test thread, innermost frame last
    ret,      \* value or exception handed from a finished frame to its caller
    now,      \* ticks elapsed since the current top-level call began
    faults,   \* session errors raised during the current top-level call
    test,     \* the top-level call the test issued, and its state
    out,      \* outcome of the last completed top-level call
    obs,      \* what the current call observed: polls, wait and lookup outcomes,
              \* the element that satisfied the latest wait
    log,      \* session commands on the page and its elements, issued by the current call
    tmpdir,   \* names of the profile directories in the temp directory
    sessions, \* live browser sessions: profile directory and owner
    proc,     \* per process: position inside _get_unique_user_data_dir
    shots,    \* the screenshot directory: whether it exists, the files in it
    mgr,      \* the current call of DriverManager.create_driver and what it built
    life      \* per test process: the test method's setup, body and teardown

vars ==
    <<app, stack, ret, now, faults, test, out, obs, log, tmpdir, sessions, proc,
      shots, mgr, life>>
pageVars == <<app, stack, ret, now, faults, test, out, obs, log>>
hostVars == <<shots, mgr, life>>
dirVars == <<tmpdir, sessions, proc, hostVars>>

-----------------------------------------------------------------------------
(* Bounds of the model *)

MaxFaults == 1        \* session errors injected per top-level call
MaxTimeoutArg == 1    \* explicit timeout arguments range over 0..MaxTimeoutArg seconds

(* Config (src/config/config.py) *)

IMPLICIT_WAIT == 5
EXPLICIT_WAIT == 10
PAGE_LOAD_TIMEOUT == 20
TEST_USERNAME == "Admin"
TEST_PASSWORD == "admin123"

\* WebDriverWait is built without a poll_frequency, so it sleeps 0.5 s between
\* polls: one tick is one poll interval.
TicksPerSecond == 2
Ticks(seconds) == seconds * TicksPerSecond

(* Selectors (src/constants/selectors.py): a selector is the tuple of its
   comma-separated alternatives. *)

USERNAME == <<"input[name='username']">>
PASSWORD == <<"input[name='password']">>
LOGIN_BUTTON == <<"button[type='submit']">>
ERROR_MESSAGE == <<".oxd-alert-content-text", ".oxd-text--p">>
REQUIRED_ERROR == <<".oxd-input-field-error-message", ".oxd-text--p">>
DASHBOARD == <<".oxd-topbar-header-breadcrumb">>
USER_DROPDOWN == <<".oxd-userdropdown-tab">>
LOGOUT_LINK == <<"a[href*='logout']">>

(* DashboardPageSelectors: each selector is a dict {'type': ..., 'value': ...},
   not a string.  A dict is the tuple that opens with the token "dict", then its
   type, then the alternatives of its value. *)

Dict(type, value) == <<"dict", type>> \o value
DictValue(d) == SubSeq(d, 3, Len(d))
IsString(sel) == sel = <<>> \/ Head(sel) # "dict"

\* The attributes of the class DashboardPageSelectors.
DashboardPageSelectors ==
    [WELCOME_MESSAGE |->
        Dict("css", <<".oxd-userdropdown-name", ".oxd-userdropdown-tab">>),
     USER_DROPDOWN |-> Dict("css", <<".oxd-userdropdown-tab">>),
     LOGOUT_LINK |-> Dict("css", <<"a[href=\"/web/index.php/auth/logout\"]">>),
     MENU_ITEMS |-> Dict("css", <<".oxd-main-menu-item">>)]

(* URLs as path segments; BASE_URL lands on the login page. *)

LOGIN_URL == <<"web", "index.php", "auth", "login">>
DASHBOARD_URL == <<"web", "index.php", "dashboard", "index">>
DASHBOARD_MARKER == <<"dashboard", "index">>

\* Python's `marker in url` on the path segments.
Contains(url, marker) ==
    \E i \in 1..(Len(url) - Len(marker) + 1) :
        SubSeq(url, i, i + Len(marker) - 1) = marker

-----------------------------------------------------------------------------
(* The application under test, as far as the page objects look at it. *)

AlertText == <<"Invalid", " ", "credentials">>
RequiredText == <<"Required">>
HintText == <<"Username", " ", ":", " ", "Admin">>
BlankText == <<" ">>
NoText == <<>>

Element(id, marks, text, displayed, enabled) ==
    [id |-> id, marks |-> marks, text |-> text, displayed |-> displayed, enabled |-> enabled]

\* The login document in document order; the alert and the required-field
\* message exist only once the application has rendered them.  The alert
\* paragraph can be in the document before its text is ("blank"), and can stay
\* while a required-field message shows ("both").
LoginDoc(a) ==
    (IF a.error \in {"invalid", "blank", "both"}
        THEN <<Element("alert", {".oxd-alert-content-text", ".oxd-text--p"},
                       IF a.error = "blank" THEN BlankText ELSE AlertText, TRUE, TRUE)>>
        ELSE <<>>)
    \o (IF a.hint
        THEN <<Element("hint", {".oxd-text--p"}, HintText, TRUE, TRUE)>>
        ELSE <<>>)
    \o <<Element("username", {"input[name='username']"}, NoText, TRUE, TRUE)>>
    \o (IF a.error \in {"required", "blank", "both"}
        THEN <<Element("required", {".oxd-input-field-error-message"}, RequiredText, TRUE, TRUE)>>
        ELSE <<>>)
    \o <<Element("password", {"input[name='password']"}, NoText, TRUE, TRUE),
         Element("submit", {"button[type='submit']"}, NoText, TRUE, TRUE)>>

\* The dashboard document: present once loaded, displayed once rendered.  The
\* logout link is in the open menu; once clicked it stays visible, disabled,
\* until the logout navigation completes.
DashboardDoc(a) ==
    (IF a.rendered
        THEN <<Element("menu_admin", {".oxd-main-menu-item"}, <<"Admin">>, TRUE, TRUE),
               Element("menu_pim", {".oxd-main-menu-item"}, <<"PIM">>, TRUE, TRUE)>>
        ELSE <<>>)
    \o <<Element("breadcrumb", {".oxd-topbar-header-breadcrumb"}, NoText, a.rendered, TRUE),
         Element("dropdown", {".oxd-userdropdown-tab"}, NoText, a.rendered, a.rendered)>>
    \o (IF a.menuOpen
        THEN <<Element("logout_link", {"a[href*='logout']"}, NoText, TRUE,
                       a.pending # "logout")>>
        ELSE <<>>)

Doc(a) == IF Contains(a.url, DASHBOARD_MARKER) THEN DashboardDoc(a) ELSE LoginDoc(a)

\* driver.find_elements(By.CSS_SELECTOR, sel): the elements matching any
\* alternative of the selector, in document order.
Matches(a, sel) ==
    SelectSeq(Doc(a), LAMBDA e : \E i \in 1..Len(sel) : sel[i] \in e.marks)

Ids(elems) == {elems[i].id : i \in 1..Len(elems)}

\* str.strip() on a text: leading and trailing blanks removed.
RECURSIVE Strip(_)
Strip(t) ==
    IF t = <<>> THEN t
    ELSE IF Head(t) = " " THEN Strip(Tail(t))
    ELSE IF t[Len(t)] = " " THEN Strip(SubSeq(t, 1, Len(t) - 1))
    ELSE t

InitApp(hint) ==
    [url |-> LOGIN_URL, error |-> "none", hint |-> hint, rendered |-> FALSE,
     menuOpen |-> FALSE, user |-> "", pass |-> "", pending |-> "none",
     last |-> "none", arrived |-> "no"]

-----------------------------------------------------------------------------
(* Frames, results and exceptions *)

Frame(fn, pc, sel, end, arg, txt) ==
    [sel |-> sel, fn |-> fn, pc |-> pc, end |-> end, arg |-> arg, txt |-> txt]

Top == stack[Len(stack)]
Pop == SubSeq(stack, 1, Len(stack) - 1)
SetPc(pc) == [stack EXCEPT ![Len(stack)].pc = pc]
InFrame(fn, pc) == stack # <<>> /\ Top.fn = fn /\ Top.pc = pc

None == [kind |-> "none", val |-> 0]
Value(kind, val) == [kind |-> kind, val |-> val]
Raise(exc) == [kind |-> "exc", val |-> exc]

TimeoutException == "TimeoutException"
NoSuchElementException == "NoSuchElementException"
WebDriverException == "WebDriverException"
StaleElementReferenceException == "StaleElementReferenceException"
InvalidArgumentException == "InvalidArgumentException"
NameError == "NameError"
AttributeError == "AttributeError"
ValueError == "ValueError"
\* What `except Exception` catches.
AllExceptions ==
    {TimeoutException, NoSuchElementException, WebDriverException,
     StaleElementReferenceException, InvalidArgumentException, NameError,
     AttributeError, ValueError}

\* `timeout or Config.EXPLICIT_WAIT`: a timeout argument is <<>> (None) or <<seconds>>.
NoTimeout == <<>>
TimeoutArgs == {NoTimeout} \cup {<<t>> : t \in 0..MaxTimeoutArg}
TimeoutOrDefault(tmo) ==
    IF tmo = NoTimeout \/ tmo[1] = 0 THEN EXPLICIT_WAIT ELSE tmo[1]

NoObs ==
    [url |-> "none", polls |-> 0, wait |-> "none", find |-> "none", absorbed |-> 0,
     by |-> "none"]

-----------------------------------------------------------------------------
(* The browser session: every command is a frame that the session answers. *)

\* driver.implicitly_wait(Config.IMPLICIT_WAIT): a lookup that matches nothing
\* blocks for the implicit wait before it gives up.
implicitly_wait == IMPLICIT_WAIT

Driver(cmd, sel, txt, t) == Frame("driver", cmd, sel, t + Ticks(implicitly_wait), "", txt)

InDriver(cmds) == stack # <<>> /\ Top.fn = "driver" /\ Top.pc \in cmds

FindCommands == {"find_element", "find_elements"}

\* The selector of a lookup must be a string: the session rejects any other
\* value with its invalid-argument error, at once and whatever the document
\* holds.
DriverFindInvalid ==
    /\ InDriver(FindCommands)
    /\ ~IsString(Top.sel)
    /\ ret' = Raise(InvalidArgumentException)
    /\ stack' = Pop
    /\ UNCHANGED <<app, now, faults, test, out, obs, log, dirVars>>

\* A lookup answers as soon as the document holds a match.
DriverFindReturn ==
    /\ InDriver(FindCommands)
    /\ IsString(Top.sel)
    /\ Matches(app, Top.sel) # <<>>
    /\ ret' = Value("elems", IF Top.pc = "find_element"
                                THEN <<Head(Matches(app, Top.sel))>>
                                ELSE Matches(app, Top.sel))
    /\ stack' = Pop
    /\ UNCHANGED <<app, now, faults, test, out, obs, log, dirVars>>

\* No match yet: the session keeps looking while the implicit wait lasts.
DriverFindWait ==
    /\ InDriver(FindCommands)
    /\ IsString(Top.sel)
    /\ Matches(app, Top.sel) = <<>>
    /\ now < Top.end
    /\ now' = now + 1
    /\ UNCHANGED <<app, stack, ret, faults, test, out, obs, log, dirVars>>

\* The implicit wait is over: find_element raises, find_elements answers [].
DriverFindGiveUp ==
    /\ InDriver(FindCommands)
    /\ IsString(Top.sel)
    /\ Matches(app, Top.sel) = <<>>
    /\ now >= Top.end
    /\ ret' = IF Top.pc = "find_element"
                 THEN Raise(NoSuchElementException)
                 ELSE Value("elems", <<>>)
    /\ stack' = Pop
    /\ UNCHANGED <<app, now, faults, test, out, obs, log, dirVars>>

\* driver.current_url and driver.page_source
DriverRead ==
    /\ InDriver({"current_url", "page_source"})
    /\ ret' = IF Top.pc = "current_url"
                 THEN Value("url", app.url)
                 ELSE Value("source", Ids(Doc(app)))
    /\ stack' = Pop
    /\ UNCHANGED <<app, now, faults, test, out, obs, log, dirVars>>

SubmittedAs(a) ==
    IF a.user = "" \/ a.pass = "" THEN "required"
    ELSE IF a.user = TEST_USERNAME /\ a.pass = TEST_PASSWORD THEN "valid"
    ELSE "invalid"

\* What a click does to the application: the login form is submitted and
\* answered later, the user dropdown opens at once, the logout link starts a
\* navigation that completes later.
Clicked(a, id) ==
    CASE id = "submit" ->
            [a EXCEPT !.pending = SubmittedAs(a), !.last = SubmittedAs(a)]
      [] id = "dropdown" -> [a EXCEPT !.menuOpen = ~a.menuOpen]
      [] id = "logout_link" -> [a EXCEPT !.pending = "logout", !.last = "logout"]
      [] OTHER -> a

Field(id) == IF id = "username" THEN "user" ELSE "pass"

Typed(a, id, cmd, txt) ==
    IF id \notin {"username", "password"} THEN a
    ELSE IF cmd = "clear" THEN [a EXCEPT ![Field(id)] = ""]
    ELSE [a EXCEPT ![Field(id)] = IF a[Field(id)] = "" THEN txt ELSE "mixed"]

\* element.click(), element.clear(), element.send_keys(text) on a handle found
\* earlier: the handle is stale when the element has left the document.
DriverAct ==
    /\ InDriver({"click", "clear", "send_keys"})
    /\ LET id == Top.sel[1]
           live == id \in Ids(Doc(app))
       IN /\ ret' = IF live THEN Value("void", 0) ELSE Raise(StaleElementReferenceException)
          /\ app' = IF ~live THEN app
                    ELSE IF Top.pc = "click" THEN Clicked(app, id)
                    ELSE Typed(app, id, Top.pc, Top.txt)
          /\ log' = Append(log, <<Top.pc, id>>)
    /\ stack' = Pop
    /\ UNCHANGED <<now, faults, test, out, obs, dirVars>>

\* element.text on a handle found earlier.
DriverText ==
    /\ InDriver({"text"})
    /\ LET id == Top.sel[1]
           d == Doc(app)
       IN /\ ret' = IF id \in Ids(d)
                       THEN Value("text", (CHOOSE e \in {d[i] : i \in 1..Len(d)} : e.id = id).text)
                       ELSE Raise(StaleElementReferenceException)
          /\ log' = Append(log, <<"text", id>>)
    /\ stack' = Pop
    /\ UNCHANGED <<app, now, faults, test, out, obs, dirVars>>

\* What the base URL answers: the dashboard to an authenticated session, the
\* login page otherwise.  A login or logout still in flight may or may not have
\* reached the server.
Authenticated(a) ==
    IF a.pending \in {"valid", "logout"} THEN BOOLEAN
    ELSE {Contains(a.url, DASHBOARD_MARKER)}

Loaded(a, auth) ==
    IF auth
       THEN [a EXCEPT !.url = DASHBOARD_URL, !.error = "none", !.rendered = FALSE,
                      !.menuOpen = FALSE, !.user = "", !.pass = "", !.pending = "none"]
       ELSE [InitApp(a.hint) EXCEPT !.last = a.last, !.arrived = a.arrived]

\* driver.get(url)
DriverGet ==
    /\ InDriver({"get"})
    /\ \E auth \in Authenticated(app) : app' = Loaded(app, auth)
    /\ ret' = Value("void", 0)
    /\ log' = Append(log, <<"get", "base">>)
    /\ stack' = Pop
    /\ UNCHANGED <<now, faults, test, out, obs, dirVars>>

\* Any command can fail with an error of the session itself.
SessionFault ==
    /\ stack # <<>> /\ Top.fn = "driver"
    /\ faults < MaxFaults
    /\ faults' = faults + 1
    /\ ret' = Raise(WebDriverException)
    /\ stack' = Pop
    /\ UNCHANGED <<app, now, test, out, obs, log, dirVars>>

-----------------------------------------------------------------------------
(* The application's own, asynchronous steps. *)

\* When, counted from the start of the latest call, the dashboard was there to
\* be seen: before the implicit wait was over, before the page-load timeout was
\* over, or later.
When(t) ==
    IF t < Ticks(IMPLICIT_WAIT) THEN "implicit"
    ELSE IF t < Ticks(PAGE_LOAD_TIMEOUT) THEN "pageload"
    ELSE "late"

\* The server accepts the credentials: the browser lands on the dashboard URL.
AppRedirect ==
    /\ app.pending = "valid"
    /\ app' = [app EXCEPT !.url = DASHBOARD_URL, !.pending = "none", !.user = "",
                          !.pass = "", !.error = "none", !.rendered = FALSE,
                          !.menuOpen = FALSE]
    /\ UNCHANGED <<stack, ret, now, faults, test, out, obs, log, dirVars>>

\* The dashboard's top bar is rendered.  Between two calls the test does other
\* things (it attaches a screenshot) for a time the model does not count: the
\* page may be there at any moment from the end of the latest call on.
AppRender ==
    \E arrival \in {When(t) : t \in now..Ticks(PAGE_LOAD_TIMEOUT)} :
    /\ test.st = "running" => arrival = When(now)
    /\ Contains(app.url, DASHBOARD_MARKER)
    /\ ~app.rendered
    /\ app.pending = "none"
    /\ app' = [app EXCEPT !.rendered = TRUE,
                          !.arrived = arrival]
    /\ UNCHANGED <<stack, ret, now, faults, test, out, obs, log, dirVars>>

\* The login page shows the credentials alert or the required-field message.
AppShowError ==
    /\ app.pending \in {"invalid", "required"}
    /\ app' = [app EXCEPT !.error = app.pending, !.pending = "none",
                          !.user = IF app.pending = "invalid" THEN "" ELSE app.user,
                          !.pass = IF app.pending = "invalid" THEN "" ELSE app.pass]
    /\ UNCHANGED <<stack, ret, now, faults, test, out, obs, log, dirVars>>

\* The logout navigation completes: back on the login page, logged out.
AppLogout ==
    /\ app.pending = "logout"
    /\ app' = [InitApp(app.hint) EXCEPT !.last = "logout"]
    /\ UNCHANGED <<stack, ret, now, faults, test, out, obs, log, dirVars>>

-----------------------------------------------------------------------------
(* WebDriverWait(driver, timeout).until(method) *)

\* WebDriverWait is built without ignored_exceptions: only the element-not-found
\* error of a poll is swallowed.
IgnoresNothing == {}
IGNORED_EXCEPTIONS == {NoSuchElementException}

Until(pred, sel, seconds, t) == Frame("until", "poll", sel, t + Ticks(seconds), pred, <<>>)

StartWait(o) == [o EXCEPT !.polls = 0, !.wait = "running", !.absorbed = 0, !.by = "none"]

\* The session command a predicate starts with.
FirstCommand(f) ==
    CASE f.arg = "url_lambda" -> Driver("current_url", <<>>, <<>>, now)
      [] f.arg \in {"presence_of_all_elements_located", "error_lambda"} ->
            Driver("find_elements", f.sel, <<>>, now)
      [] OTHER -> Driver("find_element", f.sel, <<>>, now)

\* A clickability that looks at visibility alone.
TruthyWhenDisplayed(f, r) ==
    CASE f.arg \in {"visibility_of_element_located", "element_to_be_clickable"} ->
            r.val[1].displayed
      [] f.arg = "presence_of_element_located" -> TRUE
      [] f.arg = "url_lambda" -> Contains(r.val, DASHBOARD_MARKER)
      [] OTHER -> Len(r.val) > 0

\* Does the predicate hold of what the session answered?
Truthy(f, r) ==
    CASE f.arg = "visibility_of_element_located" -> r.val[1].displayed
      [] f.arg = "element_to_be_clickable" -> r.val[1].displayed /\ r.val[1].enabled
      [] f.arg = "presence_of_element_located" -> TRUE
      [] f.arg = "url_lambda" -> Contains(r.val, DASHBOARD_MARKER)
      [] OTHER -> Len(r.val) > 0

\* The lambdas return a boolean, the expected conditions the element(s).
PredValue(f, r) ==
    IF f.arg \in {"url_lambda", "error_lambda"} THEN Value("bool", TRUE) ELSE r

\* value = method(driver): the predicate is invoked.
UntilPoll ==
    /\ InFrame("until", "poll")
    /\ stack' = Append(SetPc("eval"), FirstCommand(Top))
    /\ obs' = [obs EXCEPT !.polls = obs.polls + 1]
    /\ UNCHANGED <<app, ret, now, faults, test, out, log, dirVars>>

InEval == stack # <<>> /\ Top.fn = "until" /\ Top.pc \in {"eval", "eval2"} /\ ret.kind # "none"

\* `if value: return value`
UntilSatisfied ==
    /\ InEval
    /\ ret.kind # "exc"
    /\ Truthy(Top, ret)
    /\ ret' = PredValue(Top, ret)
    /\ stack' = Pop
    /\ obs' = [obs EXCEPT !.wait = "value",
                          !.by = IF ret.kind = "elems" THEN ret.val[1].id ELSE "none"]
    /\ UNCHANGED <<app, now, faults, test, out, log, dirVars>>

\* The error lambda's `or`: no alert matched, look for the required-field message.
UntilEvalMore ==
    /\ InEval
    /\ ret.kind # "exc"
    /\ ~Truthy(Top, ret)
    /\ Top.arg = "error_lambda" /\ Top.pc = "eval"
    /\ stack' = Append(SetPc("eval2"), Driver("find_elements", REQUIRED_ERROR, <<>>, now))
    /\ ret' = None
    /\ UNCHANGED <<app, now, faults, test, out, obs, log, dirVars>>

\* The predicate returned a falsy value.
UntilNotYet ==
    /\ InEval
    /\ ret.kind # "exc"
    /\ ~Truthy(Top, ret)
    /\ ~(Top.arg = "error_lambda" /\ Top.pc = "eval")
    /\ stack' = SetPc("check")
    /\ ret' = None
    /\ UNCHANGED <<app, now, faults, test, out, obs, log, dirVars>>

\* `except self._ignored_exceptions`: swallowed, the wait goes on; any other
\* exception of the predicate leaves until() at once.
UntilExcept ==
    /\ InEval
    /\ ret.kind = "exc"
    /\ IF ret.val \in IGNORED_EXCEPTIONS
          THEN /\ stack' = SetPc("check")
               /\ ret' = None
               /\ obs' = [obs EXCEPT !.absorbed = obs.absorbed + 1]
          ELSE /\ stack' = Pop
               /\ ret' = ret
               /\ obs' = [obs EXCEPT !.wait = ret.val]
    /\ UNCHANGED <<app, now, faults, test, out, log, dirVars>>

\* `if time.monotonic() > end_time: break` and `raise TimeoutException`.  The
\* clock has moved on since the poll began, so a reading at the deadline's own
\* tick is past the deadline.
UntilTimeout ==
    /\ InFrame("until", "check")
    /\ now >= Top.end
    /\ ret' = Raise(TimeoutException)
    /\ stack' = Pop
    /\ obs' = [obs EXCEPT !.wait = TimeoutException]
    /\ UNCHANGED <<app, now, faults, test, out, log, dirVars>>

\* time.sleep(self._poll)
UntilSleep ==
    /\ InFrame("until", "check")
    /\ now < Top.end
    /\ now' = now + 1
    /\ stack' = SetPc("poll")
    /\ UNCHANGED <<app, ret, faults, test, out, obs, log, dirVars>>

-----------------------------------------------------------------------------
(* BasePage (src/pages/base_page.py) *)

U1 == <<app, now, faults, test, out, log, dirVars>>
U2 == <<app, now, faults, test, out, obs, log, dirVars>>

Fn(fn, pc, sel, txt) == Frame(fn, pc, sel, 0, "", txt)

\* find_element: wait = WebDriverWait(driver, timeout or EXPLICIT_WAIT);
\* wait.until(EC.visibility_of_element_located(selector))
CallFindElement(sel, tmo, t) ==
    <<Fn("find_element", "wait", sel, <<>>),
      Until("visibility_of_element_located", sel, TimeoutOrDefault(tmo), t)>>

\* `return element`
find_element_return ==
    /\ InFrame("find_element", "wait")
    /\ ret.kind = "elems"
    /\ stack' = Pop
    /\ ret' = ret
    /\ obs' = [obs EXCEPT !.find = "returned"]
    /\ UNCHANGED U1

\* `except TimeoutException`: the handler reads driver.current_url for the log ...
find_element_timeout ==
    /\ InFrame("find_element", "wait")
    /\ ret.kind = "exc" /\ ret.val = TimeoutException
    /\ stack' = Append(SetPc("current_url"), Driver("current_url", <<>>, <<>>, now))
    /\ ret' = None
    /\ UNCHANGED U2

\* ... and then driver.page_source.
find_element_page_source ==
    /\ InFrame("find_element", "current_url")
    /\ ret.kind = "url"
    /\ stack' = Append(SetPc("page_source"), Driver("page_source", <<>>, <<>>, now))
    /\ ret' = None
    /\ UNCHANGED U2

\* What leaves find_element as an exception: the TimeoutException re-raised
\* after the diagnostics, an exception raised while reading the diagnostics
\* (it replaces the TimeoutException), or any other exception of the wait
\* (`except Exception: raise`).
find_element_raise ==
    /\ stack # <<>> /\ Top.fn = "find_element"
    /\ \/ Top.pc = "page_source" /\ ret.kind = "source" /\ ret' = Raise(TimeoutException)
       \/ Top.pc \in {"current_url", "page_source"} /\ ret.kind = "exc" /\ ret' = ret
       \/ Top.pc = "wait" /\ ret.kind = "exc" /\ ret.val # TimeoutException /\ ret' = ret
    /\ stack' = Pop
    /\ obs' = [obs EXCEPT !.find = ret'.val]
    /\ UNCHANGED U1

\* find_elements: wait.until(EC.presence_of_all_elements_located(selector))
CallFindElements(sel, tmo, t) ==
    <<Fn("find_elements", "wait", sel, <<>>),
      Until("presence_of_all_elements_located", sel, TimeoutOrDefault(tmo), t)>>

\* `except TimeoutException: return []` and `except Exception: return []`
CatchesTimeoutOnly == {TimeoutException}
find_elements_catches == AllExceptions

find_elements_return ==
    /\ InFrame("find_elements", "wait")
    /\ ret.kind = "elems"
    /\ stack' = Pop
    /\ ret' = ret
    /\ UNCHANGED U2

find_elements_except ==
    /\ InFrame("find_elements", "wait")
    /\ ret.kind = "exc"
    /\ stack' = Pop
    /\ ret' = IF ret.val \in find_elements_catches THEN Value("elems", <<>>) ELSE ret
    /\ UNCHANGED U2

\* wait_for_element_to_be_clickable: wait.until(EC.element_to_be_clickable(selector))
CallClickable(sel, tmo, t) ==
    <<Fn("wait_for_element_to_be_clickable", "wait", sel, <<>>),
      Until("element_to_be_clickable", sel, TimeoutOrDefault(tmo), t)>>

wait_for_element_to_be_clickable_return ==
    /\ InFrame("wait_for_element_to_be_clickable", "wait")
    /\ ret.kind = "elems"
    /\ stack' = Pop
    /\ ret' = ret
    /\ UNCHANGED U2

\* both handlers log and re-raise
wait_for_element_to_be_clickable_raise ==
    /\ InFrame("wait_for_element_to_be_clickable", "wait")
    /\ ret.kind = "exc"
    /\ stack' = Pop
    /\ ret' = ret
    /\ UNCHANGED U2

\* is_element_present: find_element(selector, timeout) inside try
CallIsElementPresent(sel, tmo, t) ==
    <<Fn("is_element_present", "find", sel, <<>>)>> \o CallFindElement(sel, tmo, t)

\* `except (TimeoutException, NoSuchElementException)` and `except Exception`
CatchesNotFoundOnly == {TimeoutException, NoSuchElementException}
is_element_present_catches == AllExceptions

is_element_present_true ==
    /\ InFrame("is_element_present", "find")
    /\ ret.kind = "elems"
    /\ stack' = Pop
    /\ ret' = Value("bool", TRUE)
    /\ UNCHANGED U2

is_element_present_except ==
    /\ InFrame("is_element_present", "find")
    /\ ret.kind = "exc"
    /\ stack' = Pop
    /\ ret' = IF ret.val \in is_element_present_catches THEN Value("bool", FALSE) ELSE ret
    /\ UNCHANGED U2

\* get_text: element = find_element(selector); text = element.text
CallGetText(sel, t) ==
    <<Fn("get_text", "find", sel, <<>>)>> \o CallFindElement(sel, NoTimeout, t)

\* A read that clicks the element it found.
get_text_clicks ==
    /\ InFrame("get_text", "find")
    /\ ret.kind = "elems"
    /\ stack' = Append(SetPc("text"), Driver("click", <<ret.val[1].id>>, <<>>, now))
    /\ ret' = None
    /\ UNCHANGED U2

get_text_text ==
    /\ InFrame("get_text", "find")
    /\ ret.kind = "elems"
    /\ stack' = Append(SetPc("text"), Driver("text", <<ret.val[1].id>>, <<>>, now))
    /\ ret' = None
    /\ UNCHANGED U2

\* A read that answers only the first time.
get_text_return_once ==
    /\ InFrame("get_text", "text")
    /\ ret.kind = "text"
    /\ stack' = Pop
    /\ ret' = IF test.prev.op = "get_text" THEN Value("text", <<>>) ELSE ret
    /\ UNCHANGED U2

\* `return text`
get_text_return ==
    /\ InFrame("get_text", "text")
    /\ ret.kind = "text"
    /\ stack' = Pop
    /\ ret' = ret
    /\ UNCHANGED U2

\* `except Exception: return ""`
CatchesLookupErrorsOnly == {TimeoutException, NoSuchElementException}
get_text_catches == AllExceptions

get_text_except ==
    /\ stack # <<>> /\ Top.fn = "get_text"
    /\ ret.kind = "exc"
    /\ stack' = Pop
    /\ ret' = IF ret.val \in get_text_catches THEN Value("text", <<>>) ELSE ret
    /\ UNCHANGED U2

\* input_text: element = find_element(selector); element.clear(); element.send_keys(text)
CallInputText(sel, text, t) ==
    <<Fn("input_text", "find", sel, text)>> \o CallFindElement(sel, NoTimeout, t)

\* An input that types over what the field holds.
input_text_no_clear ==
    /\ InFrame("input_text", "find")
    /\ ret.kind = "elems"
    /\ stack' = Append([stack EXCEPT ![Len(stack)].pc = "send_keys",
                                     ![Len(stack)].arg = ret.val[1].id],
                       Driver("send_keys", <<ret.val[1].id>>, Top.txt, now))
    /\ ret' = None
    /\ UNCHANGED U2

input_text_clear ==
    /\ InFrame("input_text", "find")
    /\ ret.kind = "elems"
    /\ stack' = Append([stack EXCEPT ![Len(stack)].pc = "clear",
                                     ![Len(stack)].arg = ret.val[1].id],
                       Driver("clear", <<ret.val[1].id>>, <<>>, now))
    /\ ret' = None
    /\ UNCHANGED U2

input_text_send_keys ==
    /\ InFrame("input_text", "clear")
    /\ ret.kind = "void"
    /\ stack' = Append(SetPc("send_keys"), Driver("send_keys", <<Top.arg>>, Top.txt, now))
    /\ ret' = None
    /\ UNCHANGED U2

input_text_done ==
    /\ InFrame("input_text", "send_keys")
    /\ ret.kind = "void"
    /\ stack' = Pop
    /\ ret' = Value("void", 0)
    /\ UNCHANGED U2

\* `except Exception: raise`
input_text_raise ==
    /\ stack # <<>> /\ Top.fn = "input_text"
    /\ ret.kind = "exc"
    /\ stack' = Pop
    /\ ret' = ret
    /\ UNCHANGED U2

\* click: element = wait_for_element_to_be_clickable(selector); element.click()
CallClick(sel, t) ==
    <<Fn("click", "wait", sel, <<>>)>> \o CallClickable(sel, NoTimeout, t)

click_element ==
    /\ InFrame("click", "wait")
    /\ ret.kind = "elems"
    /\ stack' = Append(SetPc("click"), Driver("click", <<ret.val[1].id>>, <<>>, now))
    /\ ret' = None
    /\ UNCHANGED U2

click_done ==
    /\ InFrame("click", "click")
    /\ ret.kind = "void"
    /\ stack' = Pop
    /\ ret' = Value("void", 0)
    /\ UNCHANGED U2

\* A click that wraps what went wrong in an error of its own.
click_raise_wrapped ==
    /\ stack # <<>> /\ Top.fn = "click"
    /\ ret.kind = "exc"
    /\ stack' = Pop
    /\ ret' = Raise("ActionFailed")
    /\ UNCHANGED U2

\* `except Exception: raise`
click_raise ==
    /\ stack # <<>> /\ Top.fn = "click"
    /\ ret.kind = "exc"
    /\ stack' = Pop
    /\ ret' = ret
    /\ UNCHANGED U2

\* The names that the imports of pages/base_page.py bind in the module.
base_page_names ==
    {"Optional", "List", "WebDriver", "WebElement", "WebDriverWait", "EC", "By",
     "TimeoutException", "NoSuchElementException", "logger", "Config"}

SCREENSHOT_DIR == "screenshots"

\* datetime.now().strftime("%Y%m%d_%H%M%S"): the clock to the second.
strftime(t) == ToString(t \div TicksPerSecond)

\* f"{name or 'screenshot'}_{timestamp}.png" joined to the directory; a name
\* is <<>> (None) or <<name>>.
filepath(name, t) ==
    <<SCREENSHOT_DIR, "/", IF name = <<>> THEN "screenshot" ELSE name[1], "_",
      strftime(t), ".png">>

CallTakeScreenshot(name) == <<Fn("take_screenshot", "call", <<>>, name)>>

\* take_screenshot, the whole method.  Its first statement evaluates `os`, its
\* third `datetime`: a name the module does not bind raises NameError there.
\* With both bound: the directory is made if missing (makedirs can fail),
\* driver.save_screenshot writes the file (a failed write is answered with
\* False, which the method ignores) and the path is returned.
take_screenshot ==
    /\ InFrame("take_screenshot", "call")
    /\ IF {"os", "datetime"} \subseteq base_page_names
          THEN \E makedirs \in BOOLEAN, written \in BOOLEAN :
                  IF ~shots.exists /\ ~makedirs
                     THEN /\ ret' = Raise("OSError")
                          /\ UNCHANGED <<shots, log>>
                     ELSE /\ shots' = [exists |-> TRUE,
                                       files |-> IF written
                                                    THEN shots.files \cup {filepath(Top.txt, now)}
                                                    ELSE shots.files]
                          /\ log' = Append(log, <<"save_screenshot", "viewport">>)
                          /\ ret' = Value("path", filepath(Top.txt, now))
          ELSE /\ ret' = Raise(NameError)
               /\ UNCHANGED <<shots, log>>
    /\ stack' = Pop
    /\ UNCHANGED <<app, now, faults, test, out, obs, tmpdir, sessions, proc, mgr, life>>

\* pytest_runtest_makereport (tests/conftest.py), for a failed test call with a
\* page object among its arguments: page.take_screenshot(item.name) stands
\* outside the try, the attachment of the file inside it.
CallReport(name) ==
    <<Fn("pytest_runtest_makereport", "take_screenshot", <<>>, name)>>
    \o CallTakeScreenshot(name)

pytest_runtest_makereport ==
    /\ InFrame("pytest_runtest_makereport", "take_screenshot")
    /\ ret.kind \in {"path", "exc"}
    /\ stack' = Pop
    /\ ret' = IF ret.kind = "exc" THEN ret ELSE Value("void", 0)
    /\ UNCHANGED U2

-----------------------------------------------------------------------------
(* LoginPage (src/pages/login_page.py) *)

Credentials(cred) ==
    CASE cred = "valid" -> <<TEST_USERNAME, TEST_PASSWORD>>
      [] cred = "invalid" -> <<"invalid", "invalid">>
      [] OTHER -> <<"", "">>

\* A login that begins with the password field.
CallLoginPasswordFirst(username, password, t) ==
    <<Fn("login", "username", <<>>, <<username, password>>)>>
    \o CallInputText(PASSWORD, password, t)

\* login: input_text(USERNAME, username); input_text(PASSWORD, password); click_login_button()
CallLogin(username, password, t) ==
    <<Fn("login", "username", <<>>, <<username, password>>)>>
    \o CallInputText(USERNAME, username, t)

login_password ==
    /\ InFrame("login", "username")
    /\ ret.kind = "void"
    /\ stack' = SetPc("password") \o CallInputText(PASSWORD, Top.txt[2], now)
    /\ ret' = None
    /\ obs' = StartWait(obs)
    /\ UNCHANGED U1

login_click_login_button ==
    /\ InFrame("login", "password")
    /\ ret.kind = "void"
    /\ stack' = SetPc("button") \o <<Fn("click_login_button", "click", <<>>, <<>>)>>
                \o CallClick(LOGIN_BUTTON, now)
    /\ ret' = None
    /\ obs' = StartWait(obs)
    /\ UNCHANGED U1

\* click_login_button: click(LOGIN_BUTTON); `except Exception: raise`
click_login_button_end ==
    /\ InFrame("click_login_button", "click")
    /\ ret.kind \in {"void", "exc"}
    /\ stack' = Pop
    /\ ret' = ret
    /\ UNCHANGED U2

login_done ==
    /\ InFrame("login", "button")
    /\ ret.kind = "void"
    /\ stack' = Pop
    /\ ret' = Value("void", 0)
    /\ UNCHANGED U2

\* `except Exception: raise`
login_raise ==
    /\ stack # <<>> /\ Top.fn = "login"
    /\ ret.kind = "exc"
    /\ stack' = Pop
    /\ ret' = ret
    /\ UNCHANGED U2

\* logout: click(USER_DROPDOWN); click(LOGOUT_LINK)
CallLogout(t) == <<Fn("logout", "dropdown", <<>>, <<>>)>> \o CallClick(USER_DROPDOWN, t)

logout_link ==
    /\ InFrame("logout", "dropdown")
    /\ ret.kind = "void"
    /\ stack' = SetPc("link") \o CallClick(LOGOUT_LINK, now)
    /\ ret' = None
    /\ obs' = StartWait(obs)
    /\ UNCHANGED U1

logout_done ==
    /\ InFrame("logout", "link")
    /\ ret.kind = "void"
    /\ stack' = Pop
    /\ ret' = Value("void", 0)
    /\ UNCHANGED U2

\* A logout that swallows what went wrong.
logout_swallows ==
    /\ stack # <<>> /\ Top.fn = "logout"
    /\ ret.kind = "exc"
    /\ stack' = Pop
    /\ ret' = Value("void", 0)
    /\ UNCHANGED U2

\* `except Exception: raise`
logout_raise ==
    /\ stack # <<>> /\ Top.fn = "logout"
    /\ ret.kind = "exc"
    /\ stack' = Pop
    /\ ret' = ret
    /\ UNCHANGED U2

\* navigate: self.driver.get(self.url)
CallNavigate(t) == <<Fn("navigate", "get", <<>>, <<>>), Driver("get", <<>>, <<>>, t)>>

\* WebDriverWait(driver, IMPLICIT_WAIT).until(presence_of_element_located(USERNAME))
navigate_wait ==
    /\ InFrame("navigate", "get")
    /\ ret.kind = "void"
    /\ stack' = Append(SetPc("wait"),
                       Until("presence_of_element_located", USERNAME, IMPLICIT_WAIT, now))
    /\ ret' = None
    /\ obs' = StartWait(obs)
    /\ UNCHANGED U1

\* `self.driver.current_url`
navigate_current_url ==
    /\ InFrame("navigate", "wait")
    /\ ret.kind = "elems"
    /\ stack' = Append(SetPc("url"), Driver("current_url", <<>>, <<>>, now))
    /\ ret' = None
    /\ UNCHANGED U2

\* `if "/dashboard/index" in self.driver.current_url: self.logout()`, and the
\* end of navigate after the check or after logout.
navigate_end ==
    /\ stack # <<>> /\ Top.fn = "navigate"
    /\ IF Top.pc = "url" /\ ret.kind = "url" /\ Contains(ret.val, DASHBOARD_MARKER)
          THEN /\ stack' = SetPc("logout") \o CallLogout(now)
               /\ ret' = None
               /\ obs' = [StartWait(obs) EXCEPT !.url = "seen"]
          ELSE /\ \/ Top.pc = "url" /\ ret.kind = "url"
                  \/ Top.pc = "logout" /\ ret.kind = "void"
               /\ stack' = Pop
               /\ ret' = Value("void", 0)
               /\ obs' = obs
    /\ UNCHANGED U1

\* `except TimeoutException: raise` and `except Exception: raise`
navigate_raise ==
    /\ stack # <<>> /\ Top.fn = "navigate"
    /\ ret.kind = "exc"
    /\ stack' = Pop
    /\ ret' = ret
    /\ UNCHANGED U2

\* is_login_successful: WebDriverWait(driver, IMPLICIT_WAIT).until(
\*     lambda driver: "/dashboard/index" in driver.current_url)
is_login_successful_wait == IMPLICIT_WAIT

CallIsLoginSuccessfulNoWait(t) ==
    <<Fn("is_login_successful", "url", <<>>, <<>>), Until("url_lambda", <<>>, 0, t)>>

CallIsLoginSuccessful(t) ==
    <<Fn("is_login_successful", "url", <<>>, <<>>),
      Until("url_lambda", <<>>, is_login_successful_wait, t)>>

\* dashboard = find_element(DASHBOARD)
is_login_successful_find ==
    /\ InFrame("is_login_successful", "url")
    /\ ret.kind = "bool"
    /\ stack' = SetPc("find") \o CallFindElement(DASHBOARD, NoTimeout, now)
    /\ ret' = None
    /\ obs' = [StartWait(obs) EXCEPT !.url = "seen"]
    /\ UNCHANGED U1

\* `return bool(dashboard)`: a WebElement is truthy
is_login_successful_return ==
    /\ InFrame("is_login_successful", "find")
    /\ ret.kind = "elems"
    /\ stack' = Pop
    /\ ret' = Value("bool", ret.val # <<>>)
    /\ UNCHANGED U2

\* `except (TimeoutException, NoSuchElementException)` and `except Exception`
CatchesNamedOnly == {TimeoutException, NoSuchElementException}
is_login_successful_catches == AllExceptions

is_login_successful_except ==
    /\ stack # <<>> /\ Top.fn = "is_login_successful"
    /\ ret.kind = "exc"
    /\ stack' = Pop
    /\ ret' = IF ret.val \in is_login_successful_catches THEN Value("bool", FALSE) ELSE ret
    /\ UNCHANGED U2

\* get_error_message: WebDriverWait(driver, IMPLICIT_WAIT).until(lambda driver:
\*     len(find_elements(ERROR_MESSAGE)) > 0 or len(find_elements(REQUIRED_ERROR)) > 0)
CallGetErrorMessage(t) ==
    <<Fn("get_error_message", "wait", <<>>, <<>>),
      Until("error_lambda", ERROR_MESSAGE, IMPLICIT_WAIT, t)>>

\* error_elements = driver.find_elements(ERROR_MESSAGE)
get_error_message_error_elements ==
    /\ InFrame("get_error_message", "wait")
    /\ ret.kind = "bool"
    /\ stack' = Append(SetPc("error_elements"), Driver("find_elements", ERROR_MESSAGE, <<>>, now))
    /\ ret' = None
    /\ UNCHANGED U2

\* `if not error_elements`: required_elements = driver.find_elements(REQUIRED_ERROR)
get_error_message_required_elements ==
    /\ InFrame("get_error_message", "error_elements")
    /\ ret.kind = "elems" /\ ret.val = <<>>
    /\ stack' = Append(SetPc("required_elements"), Driver("find_elements", REQUIRED_ERROR, <<>>, now))
    /\ ret' = None
    /\ UNCHANGED U2

\* `elements[0].text` of whichever list was not empty
get_error_message_text ==
    /\ stack # <<>> /\ Top.fn = "get_error_message"
    /\ Top.pc \in {"error_elements", "required_elements"}
    /\ ret.kind = "elems" /\ ret.val # <<>>
    /\ stack' = Append(SetPc("text"), Driver("text", <<ret.val[1].id>>, <<>>, now))
    /\ ret' = None
    /\ UNCHANGED U2

\* `return elements[0].text.strip()`, or `return ""` when both lists are empty
get_error_message_return ==
    /\ stack # <<>> /\ Top.fn = "get_error_message"
    /\ \/ Top.pc = "text" /\ ret.kind = "text" /\ ret' = Value("text", Strip(ret.val))
       \/ Top.pc = "required_elements" /\ ret.kind = "elems" /\ ret.val = <<>>
          /\ ret' = Value("text", <<>>)
    /\ stack' = Pop
    /\ UNCHANGED U2

\* `except TimeoutException: return ""` and `except Exception: return ""`
CatchesWaitTimeoutOnly == {TimeoutException}
get_error_message_catches == AllExceptions

get_error_message_except ==
    /\ stack # <<>> /\ Top.fn = "get_error_message"
    /\ ret.kind = "exc"
    /\ stack' = Pop
    /\ ret' = IF ret.val \in get_error_message_catches THEN Value("text", <<>>) ELSE ret
    /\ UNCHANGED U2

-----------------------------------------------------------------------------
(* DashboardPage (src/pages/dashboard_page.py) *)

\* The names that the imports of pages/dashboard_page.py bind in the module.
dashboard_page_names ==
    {"List", "Optional", "WebDriver", "BasePage", "DashboardPageSelectors"}

CallGetMenuItems == <<Fn("get_menu_items", "call", <<>>, <<>>)>>

\* get_menu_items, the whole method: its first statement evaluates `By`, and a
\* name the module does not bind raises NameError there.  With it bound:
\* driver.find_elements(By.CSS_SELECTOR, MENU_ITEMS["value"]) and the text of
\* each element, in document order.
get_menu_items ==
    /\ InFrame("get_menu_items", "call")
    /\ IF "By" \in dashboard_page_names
          THEN LET elements == Matches(app, DictValue(DashboardPageSelectors.MENU_ITEMS))
               IN  /\ ret' = Value("texts", [i \in 1..Len(elements) |-> elements[i].text])
                   /\ log' = log \o [i \in 1..Len(elements) |-> <<"text", elements[i].id>>]
          ELSE /\ ret' = Raise(NameError)
               /\ log' = log
    /\ stack' = Pop
    /\ UNCHANGED <<app, now, faults, test, out, obs, dirVars>>

\* is_user_logged_in: return self.is_element_present(self.selectors.WELCOME_MESSAGE)
CallIsUserLoggedIn(t) ==
    <<Fn("is_user_logged_in", "present", <<>>, <<>>)>>
    \o CallIsElementPresent(DashboardPageSelectors.WELCOME_MESSAGE, NoTimeout, t)

is_user_logged_in_return ==
    /\ InFrame("is_user_logged_in", "present")
    /\ ret.kind \in {"bool", "exc"}
    /\ stack' = Pop
    /\ ret' = ret
    /\ UNCHANGED U2

\* DashboardPage.logout: self.click(self.selectors.USER_DROPDOWN), then
\* self.click(self.selectors.LOGOUT_BUTTON), without try.
CallDashboardLogout(t) ==
    <<Fn("DashboardPage_logout", "dropdown", <<>>, <<>>)>>
    \o CallClick(DashboardPageSelectors.USER_DROPDOWN, t)

\* What follows a click of logout: an error of the click leaves the method; after
\* the first click `self.selectors.LOGOUT_BUTTON` is evaluated, an AttributeError
\* when the class has no such attribute, and the second click is made; after
\* the second click the method returns.
DashboardPage_logout ==
    /\ stack # <<>> /\ Top.fn = "DashboardPage_logout"
    /\ ret.kind \in {"void", "exc"}
    /\ IF ret.kind = "void" /\ Top.pc = "dropdown"
             /\ "LOGOUT_BUTTON" \in DOMAIN DashboardPageSelectors
          THEN /\ stack' = SetPc("button")
                            \o CallClick(DashboardPageSelectors["LOGOUT_BUTTON"], now)
               /\ ret' = None
               /\ obs' = StartWait(obs)
          ELSE /\ stack' = Pop
               /\ ret' = IF ret.kind = "void" /\ Top.pc = "dropdown"
                            THEN Raise(AttributeError)
                            ELSE ret
               /\ obs' = obs
    /\ UNCHANGED U1

-----------------------------------------------------------------------------
(* The test: issues one page-object call at a time and receives its outcome. *)

ProbeSelectors == {USERNAME, DASHBOARD, LOGOUT_LINK}
CredentialKinds == {"valid", "invalid", "empty"}

Call(op, cred, expect) == [cred |-> cred, op |-> op, expect |-> expect]

\* The tests of src/tests/test_login.py as the calls they make on the login
\* page and what they assert of each; "required_field" is the same sequence as
\* test_invalid_login with empty credentials, "setup_method" is the navigate()
\* of TestLogin.setup_method, "navigate_authenticated" is navigate() called
\* once logged in, "logout_anonymous" is logout() called on the login page.
Scripts ==
    [test_valid_login |->
        <<Call("login", "valid", "any"), Call("is_login_successful", "", "true")>>,
     test_logout |->
        <<Call("login", "valid", "any"), Call("is_login_successful", "", "true"),
          Call("logout", "", "any"), Call("is_login_successful", "", "false")>>,
     test_invalid_login |->
        <<Call("login", "invalid", "any"), Call("is_login_successful", "", "false"),
          Call("get_error_message", "", "any")>>,
     required_field |->
        <<Call("login", "empty", "any"), Call("is_login_successful", "", "false"),
          Call("get_error_message", "", "any")>>,
     setup_method |-> <<Call("navigate", "", "any")>>,
     navigate_authenticated |->
        <<Call("login", "valid", "any"), Call("is_login_successful", "", "true"),
          Call("navigate", "", "any")>>,
     logout_anonymous |-> <<Call("logout", "", "any")>>]

\* The call before the current one, kept when the current one is a get_text:
\* what it was, the document it began on, what it returned.
NoPrev == [faults |-> 0, out |-> None, sel |-> <<>>, op |-> "none", app0 |-> InitApp(FALSE)]

\* app0 is the application as it was when the current call began.
Idle(script) ==
    [sel |-> <<>>, tmo |-> NoTimeout, st |-> "idle", cred |-> "", op |-> "none",
     app0 |-> InitApp(FALSE), script |-> script, step |-> 0, prev |-> NoPrev]

\* An exception or a failed assertion ends the test.
Passed ==
    \/ test.st = "idle"
    \/ /\ test.st = "done"
       /\ out.kind # "exc"
       /\ LET expect == Scripts[test.script][test.step].expect
          IN expect = "any" \/ (out.kind = "bool" /\ out.val = (expect = "true"))

Begin(op, sel, tmo, cred, frames) ==
    /\ stack = <<>>
    /\ test.st # "running"
    /\ stack' = frames
    /\ app' = [app EXCEPT !.arrived = IF app.arrived = "no" THEN "no" ELSE "implicit"]
    /\ test' = [test EXCEPT !.op = op, !.sel = sel, !.tmo = tmo, !.cred = cred,
                            !.st = "running",
                            !.step = IF test.script \in DOMAIN Scripts
                                        THEN test.step + 1 ELSE test.step,
                            !.app0 = app',
                            !.prev = IF op = "get_text"
                                        THEN [faults |-> faults, out |-> out, sel |-> test.sel,
                                              op |-> test.op, app0 |-> test.app0]
                                        ELSE NoPrev]
    /\ out' = None
    /\ ret' = None
    /\ now' = 0
    /\ faults' = 0
    /\ obs' = StartWait(NoObs)
    /\ log' = <<>>
    /\ UNCHANGED dirVars

TestFindElement ==
    \E sel \in ProbeSelectors, tmo \in TimeoutArgs :
        Begin("find_element", sel, tmo, "", CallFindElement(sel, tmo, 0))

TestFindElements ==
    \E sel \in ProbeSelectors, tmo \in TimeoutArgs :
        Begin("find_elements", sel, tmo, "", CallFindElements(sel, tmo, 0))

TestWaitClickable ==
    \E sel \in ProbeSelectors, tmo \in TimeoutArgs :
        Begin("wait_for_element_to_be_clickable", sel, tmo, "", CallClickable(sel, tmo, 0))

TestIsElementPresent ==
    \E sel \in ProbeSelectors, tmo \in TimeoutArgs :
        Begin("is_element_present", sel, tmo, "", CallIsElementPresent(sel, tmo, 0))

ReadSelectors == {ERROR_MESSAGE, REQUIRED_ERROR, USERNAME}

TestGetText ==
    \E sel \in ReadSelectors :
        test.script = "read" /\ Begin("get_text", sel, NoTimeout, "", CallGetText(sel, 0))

\* get_error_message called on whatever the page shows.
TestReadErrorMessage ==
    /\ test.script = "read"
    /\ Begin("get_error_message", <<>>, NoTimeout, "", CallGetErrorMessage(0))

\* The next call of the script, if the test got this far.
NextCall(op) ==
    /\ test.script \in DOMAIN Scripts
    /\ test.step < Len(Scripts[test.script])
    /\ Passed
    /\ Scripts[test.script][test.step + 1].op = op

NextCred == Scripts[test.script][test.step + 1].cred

TestLogin ==
    /\ NextCall("login")
    /\ Begin("login", <<>>, NoTimeout, NextCred,
             CallLogin(Credentials(NextCred)[1], Credentials(NextCred)[2], 0))

TestLogout ==
    /\ NextCall("logout")
    /\ Begin("logout", <<>>, NoTimeout, "", CallLogout(0))

TestIsLoginSuccessful ==
    /\ NextCall("is_login_successful")
    /\ Begin("is_login_successful", <<>>, NoTimeout, "", CallIsLoginSuccessful(0))

TestNavigate ==
    /\ NextCall("navigate")
    /\ Begin("navigate", <<>>, NoTimeout, "", CallNavigate(0))

TestGetErrorMessage ==
    /\ NextCall("get_error_message")
    /\ Begin("get_error_message", <<>>, NoTimeout, "", CallGetErrorMessage(0))

\* The probing operations, each with its default timeout, called between the
\* other calls of a test on whatever the page shows.
ProbingOps ==
    {"is_element_present", "find_element", "find_elements", "get_text",
     "get_error_message", "is_login_successful", "is_user_logged_in"}

TakesSelector(op) ==
    op \in {"is_element_present", "find_element", "find_elements", "get_text"}

ProbingCall(op, sel) ==
    CASE op = "is_element_present" -> CallIsElementPresent(sel, NoTimeout, 0)
      [] op = "find_element" -> CallFindElement(sel, NoTimeout, 0)
      [] op = "find_elements" -> CallFindElements(sel, NoTimeout, 0)
      [] op = "get_text" -> CallGetText(sel, 0)
      [] op = "get_error_message" -> CallGetErrorMessage(0)
      [] op = "is_login_successful" -> CallIsLoginSuccessful(0)
      [] op = "is_user_logged_in" -> CallIsUserLoggedIn(0)

\* The lookups are made for the username field, which the login page has and
\* the dashboard has not.
TestProbing ==
    \E op \in ProbingOps :
        /\ test.script = "dashboard"
        /\ Begin(op, IF TakesSelector(op) THEN USERNAME ELSE <<>>, NoTimeout, "",
                 ProbingCall(op, USERNAME))

TestGetMenuItems ==
    /\ test.script = "dashboard"
    /\ Begin("get_menu_items", <<>>, NoTimeout, "", CallGetMenuItems)

\* The two logouts: DashboardPage.logout and LoginPage.logout.
TestDashboardLogout ==
    /\ test.script = "dashboard"
    /\ Begin("DashboardPage_logout", <<>>, NoTimeout, "", CallDashboardLogout(0))

TestLoginPageLogout ==
    /\ test.script = "dashboard"
    /\ Begin("logout", <<>>, NoTimeout, "", CallLogout(0))

TestLoginPageNavigate ==
    /\ test.script = "dashboard"
    /\ Begin("navigate", <<>>, NoTimeout, "", CallNavigate(0))

\* take_screenshot called by a test, and by the report hook with item.name.
ScreenshotNames == {<<>>, <<"test_valid_login">>}

TestTakeScreenshot ==
    \E name \in ScreenshotNames :
        /\ test.script = "dashboard"
        /\ Begin("take_screenshot", name, NoTimeout, "", CallTakeScreenshot(name))

TestReport ==
    /\ test.script = "dashboard"
    /\ Begin("pytest_runtest_makereport", <<"test_valid_login">>, NoTimeout, "",
             CallReport(<<"test_valid_login">>))

\* The call has unwound: its value or exception reaches the test.
Complete ==
    /\ stack = <<>>
    /\ test.st = "running"
    /\ ret.kind # "none"
    /\ test' = [test EXCEPT !.st = "done"]
    /\ out' = ret
    /\ ret' = None
    /\ UNCHANGED <<app, stack, now, faults, obs, log, dirVars>>

-----------------------------------------------------------------------------

\* The screenshot directory, create_driver and the test lifecycle have
\* specifications of their own; elsewhere their state is not in play.
NoShots == [exists |-> FALSE, files |-> {}]
HostUnused == shots = NoShots /\ mgr = <<>> /\ life = <<>>

\* After TestLogin.setup_method: a session on the login page, nothing called yet.
Init ==
    /\ app \in {InitApp(h) : h \in BOOLEAN}
    /\ stack = <<>>
    /\ ret = None
    /\ now = 0
    /\ faults = 0
    /\ test \in {Idle(script) : script \in DOMAIN Scripts}
    /\ out = None
    /\ obs = NoObs
    /\ log = <<>>
    /\ tmpdir = {}
    /\ sessions = {}
    /\ proc = <<>>
    /\ HostUnused

Session ==
    \/ DriverFindReturn \/ DriverFindWait \/ DriverFindGiveUp \/ DriverRead
    \/ DriverAct \/ DriverText \/ DriverGet \/ SessionFault

Application == AppRedirect \/ AppRender \/ AppShowError \/ AppLogout

WebDriverWait ==
    \/ UntilPoll \/ UntilSatisfied \/ UntilEvalMore \/ UntilNotYet \/ UntilExcept
    \/ UntilTimeout \/ UntilSleep

find_element ==
    \/ find_element_return \/ find_element_timeout \/ find_element_page_source
    \/ find_element_raise

wait_for_element_to_be_clickable ==
    wait_for_element_to_be_clickable_return \/ wait_for_element_to_be_clickable_raise

\* The login scenarios: the test calls the LoginPage operations in any order.
Next ==
    \/ TestLogin \/ TestLogout \/ TestIsLoginSuccessful \/ TestGetErrorMessage
    \/ TestNavigate
    \/ Complete
    \/ Session \/ Application \/ WebDriverWait
    \/ find_element \/ wait_for_element_to_be_clickable
    \/ input_text_clear \/ input_text_send_keys \/ input_text_done \/ input_text_raise
    \/ click_element \/ click_done \/ click_raise
    \/ login_password \/ login_click_login_button \/ click_login_button_end
    \/ login_done \/ login_raise
    \/ logout_link \/ logout_done \/ logout_raise
    \/ navigate_wait \/ navigate_current_url \/ navigate_end \/ navigate_raise
    \/ is_login_successful_find \/ is_login_successful_return \/ is_login_successful_except
    \/ get_error_message_error_elements \/ get_error_message_required_elements
    \/ get_error_message_text \/ get_error_message_return \/ get_error_message_except

Spec == Init /\ [][Next]_vars

\* The BasePage lookups called directly, on a session that the login scenarios
\* have left in any of these states: on the login page (with or without the
\* alert), with a login or a logout in flight, or on the dashboard.
OnLoginPage(h) == InitApp(h)
LoginInFlight(h, kind) ==
    [InitApp(h) EXCEPT !.user = Credentials(kind)[1], !.pass = Credentials(kind)[2],
                       !.pending = kind, !.last = kind]
OnDashboard(h, open, leaving) ==
    [InitApp(h) EXCEPT !.url = DASHBOARD_URL, !.rendered = TRUE, !.arrived = "implicit",
                       !.menuOpen = open, !.last = IF leaving THEN "logout" ELSE "valid",
                       !.pending = IF leaving THEN "logout" ELSE "none"]
ProbeApps ==
    {OnLoginPage(h) : h \in BOOLEAN}
    \cup {LoginInFlight(TRUE, kind) : kind \in {"valid", "invalid"}}
    \cup {OnDashboard(TRUE, open, leaving) : open \in BOOLEAN, leaving \in BOOLEAN}

InitProbe ==
    /\ app \in ProbeApps
    /\ stack = <<>>
    /\ ret = None
    /\ now = 0
    /\ faults = 0
    /\ test = Idle("probe")
    /\ out = None
    /\ obs = NoObs
    /\ log = <<>>
    /\ tmpdir = {}
    /\ sessions = {}
    /\ proc = <<>>
    /\ HostUnused

NextProbe ==
    \/ TestFindElement \/ TestFindElements \/ TestWaitClickable \/ TestIsElementPresent
    \/ Complete
    \/ DriverFindReturn \/ DriverFindWait \/ DriverFindGiveUp \/ DriverRead \/ SessionFault
    \/ Application
    \/ UntilPoll \/ UntilSatisfied \/ UntilNotYet \/ UntilExcept \/ UntilTimeout \/ UntilSleep
    \/ find_element \/ wait_for_element_to_be_clickable
    \/ find_elements_return \/ find_elements_except
    \/ is_element_present_true \/ is_element_present_except

SpecProbe == InitProbe /\ [][NextProbe]_vars

\* The reads, get_text and get_error_message, called on a login page that shows
\* nothing, the alert, the required-field message, or both, on a login page
\* with a login in flight, and on the dashboard.
Showing(h, error) == [InitApp(h) EXCEPT !.error = error]
ReadApps ==
    {Showing(h, error) : h \in BOOLEAN, error \in {"none", "invalid", "required", "blank", "both"}}
    \cup {LoginInFlight(h, kind) : h \in BOOLEAN, kind \in {"valid", "invalid"}}
    \cup {OnDashboard(TRUE, FALSE, leaving) : leaving \in BOOLEAN}

InitRead ==
    /\ app \in ReadApps
    /\ stack = <<>>
    /\ ret = None
    /\ now = 0
    /\ faults = 0
    /\ test = Idle("read")
    /\ out = None
    /\ obs = NoObs
    /\ log = <<>>
    /\ tmpdir = {}
    /\ sessions = {}
    /\ proc = <<>>
    /\ HostUnused

NextRead ==
    \/ TestGetText \/ TestReadErrorMessage
    \/ Complete
    \/ DriverFindReturn \/ DriverFindWait \/ DriverFindGiveUp \/ DriverRead \/ DriverText
    \/ SessionFault
    \/ Application
    \/ WebDriverWait
    \/ find_element
    \/ get_text_text \/ get_text_return \/ get_text_except
    \/ get_error_message_error_elements \/ get_error_message_required_elements
    \/ get_error_message_text \/ get_error_message_return \/ get_error_message_except

SpecRead == InitRead /\ [][NextRead]_vars

\* The DashboardPage operations, take_screenshot and the probing operations,
\* called in any order on a session that is on the login page or logged in on
\* the dashboard, or has a login in flight; LoginPage.logout takes a logged-in
\* session back to the login\* page, and LoginPage.navigate reloads the base URL.
DashboardApps ==
    {OnLoginPage(TRUE), Showing(FALSE, "required")}
    \cup {LoginInFlight(TRUE, kind) : kind \in {"valid", "invalid"}}
    \cup {OnDashboard(TRUE, FALSE, FALSE)}

InitDashboard ==
    /\ app \in DashboardApps
    /\ stack = <<>>
    /\ ret = None
    /\ now = 0
    /\ faults = 0
    /\ test = Idle("dashboard")
    /\ out = None
    /\ obs = NoObs
    /\ log = <<>>
    /\ tmpdir = {}
    /\ sessions = {}
    /\ proc = <<>>
    /\ HostUnused

NextDashboard ==
    \/ TestProbing \/ TestGetMenuItems \/ TestDashboardLogout \/ TestLoginPageLogout
    \/ TestLoginPageNavigate
    \/ TestTakeScreenshot \/ TestReport
    \/ Complete
    \/ DriverFindInvalid \/ Session \/ Application \/ WebDriverWait
    \/ find_element \/ wait_for_element_to_be_clickable
    \/ find_elements_return \/ find_elements_except
    \/ is_element_present_true \/ is_element_present_except
    \/ get_text_text \/ get_text_return \/ get_text_except
    \/ click_element \/ click_done \/ click_raise
    \/ logout_link \/ logout_done \/ logout_raise
    \/ navigate_wait \/ navigate_current_url \/ navigate_end \/ navigate_raise
    \/ is_login_successful_find \/ is_login_successful_return \/ is_login_successful_except
    \/ get_error_message_error_elements \/ get_error_message_required_elements
    \/ get_error_message_text \/ get_error_message_return \/ get_error_message_except
    \/ take_screenshot \/ pytest_runtest_makereport
    \/ get_menu_items \/ is_user_logged_in_return \/ DashboardPage_logout

SpecDashboard == InitDashboard /\ [][NextDashboard]_vars

-----------------------------------------------------------------------------
(* Browser profile directories: utils/driver_manager.py, tests/base_test.py,
   tests/conftest.py.  Names are sequences of tokens, the worker id spelled
   out in characters, so that str.startswith is computed and not assumed. *)

MaxCreations == 3   \* sessions created by all processes together

GW0 == <<"g", "w", "0">>
GW1 == <<"g", "w", "1">>
GW10 == <<"g", "w", "1", "0">>
Unset == <<>>

\* The pytest processes and the PYTEST_XDIST_WORKER of each: two xdist workers
\* and two separate runs without xdist.
Pids == {"4001", "4002", "4003", "4004"}
Environ(pid) ==
    CASE pid = "4001" -> GW1
      [] pid = "4002" -> GW10
      [] OTHER -> Unset

worker_id(pid) == IF Environ(pid) = Unset THEN GW0 ELSE Environ(pid)

\* uuid.uuid4(): the n-th identifier a process draws; no two draws are equal.
uuid4(n) == ToString(n)

ProfilePrefix == <<"chrome-user-data-">>
unique_dir(pid, n) == ProfilePrefix \o worker_id(pid) \o <<"-", pid, "-", uuid4(n)>>

startswith(name, prefix) ==
    /\ Len(name) >= Len(prefix)
    /\ SubSeq(name, 1, Len(prefix)) = prefix

NoDir == <<>>
IdleProc == [pc |-> "idle", via |-> "", dir |-> NoDir, listing |-> {}, made |-> 0,
             atexit |-> {}]

RECURSIVE Created(_)
Created(pids) ==
    IF pids = {} THEN 0
    ELSE LET pid == CHOOSE x \in pids : TRUE
         IN  proc[pid].made + Created(pids \ {pid})

Live(pid, via) == {s \in sessions : s.pid = pid /\ s.via = via}

\* _get_unique_user_data_dir, up to os.listdir: called by the session-scoped
\* browser fixture through create_driver once per process, and then by
\* BaseTest.setup_method for a test method of that process.
get_unique_user_data_dir(pid, via) ==
    /\ proc[pid].pc = "idle"
    /\ Created(Pids) < MaxCreations
    /\ \/ via = "create_driver" /\ proc[pid].atexit = {}
       \/ via = "setup_method" /\ Live(pid, "create_driver") # {}
                               /\ Live(pid, "setup_method") = {}
    /\ proc' = [proc EXCEPT ![pid] =
                  [@ EXCEPT !.pc = "clean", !.via = via,
                            !.dir = unique_dir(pid, proc[pid].made + 1),
                            !.listing = tmpdir, !.made = @ + 1]]
    /\ UNCHANGED <<tmpdir, sessions, pageVars, hostVars>>

\* One turn of the clean-up loop over the listing.
get_unique_user_data_dir_clean(pid) ==
    /\ proc[pid].pc = "clean"
    /\ proc[pid].listing # {}
    /\ LET existing_dir == CHOOSE d \in proc[pid].listing : TRUE
       IN  /\ tmpdir' = IF startswith(existing_dir, ProfilePrefix \o worker_id(pid))
                           THEN tmpdir \ {existing_dir}
                           ELSE tmpdir
           /\ proc' = [proc EXCEPT ![pid].listing = @ \ {existing_dir}]
    /\ UNCHANGED <<sessions, pageVars, hostVars>>

get_unique_user_data_dir_makedirs(pid) ==
    /\ proc[pid].pc = "clean"
    /\ proc[pid].listing = {}
    /\ tmpdir' = tmpdir \cup {proc[pid].dir}
    /\ proc' = [proc EXCEPT ![pid].pc = "launch"]
    /\ UNCHANGED <<sessions, pageVars, hostVars>>

\* webdriver.Chrome(...) starts the browser on the directory; create_driver
\* registers its cleanup with atexit.
webdriver_Chrome(pid) ==
    /\ proc[pid].pc = "launch"
    /\ sessions' = sessions \cup
          {[pid |-> pid, via |-> proc[pid].via, dir |-> proc[pid].dir]}
    /\ proc' = [proc EXCEPT ![pid] =
                  [@ EXCEPT !.pc = "idle",
                            !.atexit = IF proc[pid].via = "create_driver"
                                          THEN @ \cup {proc[pid].dir} ELSE @]]
    /\ UNCHANGED <<tmpdir, pageVars, hostVars>>

\* The browser does not start: the except branch removes the directory.
webdriver_Chrome_except(pid) ==
    /\ proc[pid].pc = "launch"
    /\ tmpdir' = tmpdir \ {proc[pid].dir}
    /\ proc' = [proc EXCEPT ![pid].pc = "exited"]
    /\ UNCHANGED <<sessions, pageVars, hostVars>>

\* BaseTest.teardown_method: quit the driver, remove its directory.
teardown_method(pid) ==
    /\ proc[pid].pc = "idle"
    /\ \E s \in Live(pid, "setup_method") :
          /\ sessions' = sessions \ {s}
          /\ tmpdir' = tmpdir \ {s.dir}
    /\ UNCHANGED <<proc, pageVars, hostVars>>

\* The browser fixture's finalizer at the end of the process's run.
browser_finally(pid) ==
    /\ proc[pid].pc = "idle"
    /\ Live(pid, "setup_method") = {}
    /\ \E s \in Live(pid, "create_driver") : sessions' = sessions \ {s}
    /\ proc' = [proc EXCEPT ![pid].pc = "finished"]
    /\ UNCHANGED <<tmpdir, pageVars, hostVars>>

\* The cleanup registered with atexit.
cleanup(pid) ==
    /\ proc[pid].pc = "finished"
    /\ tmpdir' = tmpdir \ proc[pid].atexit
    /\ proc' = [proc EXCEPT ![pid].pc = "exited"]
    /\ UNCHANGED <<sessions, pageVars, hostVars>>

InitDirs ==
    /\ app = InitApp(FALSE)
    /\ stack = <<>>
    /\ ret = None
    /\ now = 0
    /\ faults = 0
    /\ test = Idle("none")
    /\ out = None
    /\ obs = NoObs
    /\ log = <<>>
    /\ tmpdir = {}
    /\ sessions = {}
    /\ proc = [pid \in Pids |-> IdleProc]
    /\ HostUnused

NextDirs ==
    \E pid \in Pids :
        \/ \E via \in {"create_driver", "setup_method"} : get_unique_user_data_dir(pid, via)
        \/ get_unique_user_data_dir_clean(pid)
        \/ get_unique_user_data_dir_makedirs(pid)
        \/ webdriver_Chrome(pid)
        \/ webdriver_Chrome_except(pid)
        \/ teardown_method(pid)
        \/ browser_finally(pid)
        \/ cleanup(pid)

SpecDirs == InitDirs /\ [][NextDirs]_vars

-----------------------------------------------------------------------------
(* DriverManager.create_driver (src/utils/driver_manager.py) and
   Config.get_browser_options (src/config/config.py).  A dict is a function
   from its keys; None and the empty string are both "". *)

BROWSER == "chrome"

\* str.lower() on the browser names in play.
lower(name) ==
    CASE name = "Chrome" -> "chrome"
      [] name = "Firefox" -> "firefox"
      [] name = "Edge" -> "edge"
      [] OTHER -> name

\* dict.get(key, default)
Get(dict, key, default) == IF key \in DOMAIN dict THEN dict[key] ELSE default

\* Config.get_browser_options(): one dict of the options of the configured
\* browser, keyed by option name.
get_browser_options(HEADLESS) ==
    [browser_name |-> lower(BROWSER),
     headless |-> HEADLESS,
     window_size |-> <<1920, 1080>>,
     arguments |->
        IF lower(BROWSER) = "chrome"
           THEN (IF HEADLESS THEN <<"--headless">> ELSE <<>>)
                \o <<"--window-size=1920,1080", "--disable-gpu", "--no-sandbox",
                     "--disable-dev-shm-usage", "--disable-notifications",
                     "--disable-extensions", "--remote-debugging-port=9222",
                     "--disable-blink-features=AutomationControlled", "--user-agent">>
           ELSE IF lower(BROWSER) = "firefox"
           THEN (IF HEADLESS THEN <<"-headless">> ELSE <<>>)
                \o <<"--width=1920", "--height=1080">>
           ELSE <<>>]

\* The names that create_driver is called with: none, the three browsers, a
\* browser it does not know, and a known one in another case.
BrowserNames == {"", "chrome", "firefox", "edge", "safari", "Chrome"}
SupportedBrowsers == {"chrome", "firefox", "edge"}

NoDriver == [kind |-> "none", args |-> {}, window |-> <<>>, implicit |-> 0, pageload |-> 0]

\* HEADLESS is Config.HEADLESS of the process; made counts the browsers the
\* process has started, base is its value when the current call began.
IdleMgr(HEADLESS, made) ==
    [pc |-> "idle", arg |-> "", exc |-> "", name |-> "", made |-> made,
     HEADLESS |-> HEADLESS, options |-> <<>>, driver |-> NoDriver, calls |-> <<>>,
     base |-> made]

mgrUnchanged == <<pageVars, tmpdir, sessions, proc, shots, life>>

\* `except Exception: logger.error(...); raise`
Failed(exc) == [mgr EXCEPT !.pc = "raised", !.exc = exc]

\* A dispatch that falls back to Chrome for a name it does not know.
dispatch_chrome_by_default(browser_name) ==
    IF browser_name \in SupportedBrowsers THEN browser_name ELSE "chrome"

\* The if / elif / else chain of create_driver: the creator for the name, or
\* "" where the chain raises ValueError.
dispatch(browser_name) ==
    IF browser_name \in SupportedBrowsers THEN browser_name ELSE ""

\* create_driver(browser_name), up to the call of the creator:
\* browser_name = browser_name or Config.BROWSER.lower();
\* options = Config.get_browser_options().get(browser_name, {}).
create_driver(arg) ==
    /\ mgr.pc = "idle"
    /\ mgr.made < MaxCreations
    /\ LET browser_name == IF arg # "" THEN arg ELSE lower(BROWSER)
           options == Get(get_browser_options(mgr.HEADLESS), browser_name, <<>>)
           called == [mgr EXCEPT !.arg = arg, !.name = browser_name,
                                 !.options = options]
       IN  mgr' = IF dispatch(browser_name) = ""
                     THEN [called EXCEPT !.pc = "raised", !.exc = ValueError]
                     ELSE [called EXCEPT !.pc = dispatch(browser_name)]
    /\ UNCHANGED mgrUnchanged

\* The arguments each creator gives the browser.
ChromeArguments ==
    {"--no-sandbox", "--disable-dev-shm-usage", "--disable-gpu",
     "--disable-notifications", "--user-data-dir"}
ChromeHeadlessArguments ==
    {"--headless=new", "--window-size=1920,1080", "--disable-gpu", "--no-sandbox",
     "--disable-dev-shm-usage", "--disable-notifications", "--disable-extensions",
     "--remote-debugging-port=9222", "--disable-blink-features=AutomationControlled",
     "--user-agent"}

\* `if options.get("headless")`: a missing key answers None, which is falsy.
Arguments(kind, options) ==
    IF kind = "chrome"
       THEN ChromeArguments
            \cup (IF Get(options, "headless", FALSE) THEN ChromeHeadlessArguments ELSE {})
       ELSE IF Get(options, "headless", FALSE) THEN {"--headless"} ELSE {}

\* _create_chrome_driver, _create_firefox_driver, _create_edge_driver: the
\* browser starts with the arguments, or it does not and the error leaves
\* create_driver.
create_browser_driver(kind) ==
    /\ mgr.pc = kind
    /\ kind \in SupportedBrowsers
    /\ \/ mgr' = [mgr EXCEPT !.pc = "set_window_size", !.made = @ + 1,
                             !.driver = [NoDriver EXCEPT !.kind = kind,
                                            !.args = Arguments(kind, mgr.options)]]
       \/ mgr' = Failed(WebDriverException)
    /\ UNCHANGED mgrUnchanged

\* driver.set_window_size(*options.get("window_size", (1920, 1080)))
driver_set_window_size ==
    /\ mgr.pc = "set_window_size"
    /\ \/ mgr' = [mgr EXCEPT !.pc = "implicitly_wait",
                             !.calls = Append(@, "set_window_size"),
                             !.driver.window = Get(mgr.options, "window_size", <<1920, 1080>>)]
       \/ mgr' = Failed(WebDriverException)
    /\ UNCHANGED mgrUnchanged

\* driver.implicitly_wait(Config.IMPLICIT_WAIT)
driver_implicitly_wait ==
    /\ mgr.pc = "implicitly_wait"
    /\ \/ mgr' = [mgr EXCEPT !.pc = "set_page_load_timeout",
                             !.calls = Append(@, "implicitly_wait"),
                             !.driver.implicit = IMPLICIT_WAIT]
       \/ mgr' = Failed(WebDriverException)
    /\ UNCHANGED mgrUnchanged

\* driver.set_page_load_timeout(Config.PAGE_LOAD_TIMEOUT); return driver
driver_set_page_load_timeout ==
    /\ mgr.pc = "set_page_load_timeout"
    /\ \/ mgr' = [mgr EXCEPT !.pc = "returned",
                             !.calls = Append(@, "set_page_load_timeout"),
                             !.driver.pageload = PAGE_LOAD_TIMEOUT]
       \/ mgr' = Failed(WebDriverException)
    /\ UNCHANGED mgrUnchanged

\* The caller has the driver or the error: the process may call again.
create_driver_over ==
    /\ mgr.pc \in {"returned", "raised"}
    /\ mgr' = IdleMgr(mgr.HEADLESS, mgr.made)
    /\ UNCHANGED mgrUnchanged

InitDriver ==
    /\ app = InitApp(FALSE)
    /\ stack = <<>>
    /\ ret = None
    /\ now = 0
    /\ faults = 0
    /\ test = Idle("none")
    /\ out = None
    /\ obs = NoObs
    /\ log = <<>>
    /\ tmpdir = {}
    /\ sessions = {}
    /\ proc = <<>>
    /\ shots = NoShots
    /\ mgr \in {IdleMgr(HEADLESS, 0) : HEADLESS \in BOOLEAN}
    /\ life = <<>>

NextDriver ==
    \/ \E arg \in BrowserNames : create_driver(arg)
    \/ \E kind \in SupportedBrowsers : create_browser_driver(kind)
    \/ driver_set_window_size
    \/ driver_implicitly_wait
    \/ driver_set_page_load_timeout
    \/ create_driver_over

SpecDriver == InitDriver /\ [][NextDriver]_vars

-----------------------------------------------------------------------------
(* The life of a test method of TestLogin: tests/test_login.py and
   tests/base_test.py, as pytest runs them.  pytest calls teardown_method only
   for a test whose setup_method returned. *)

TestPids == {"4001", "4002"}

\* browser: "none", "live", "quit", or "quit_failed" when driver.quit() raised;
\* dir: "none", "exists" or "removed"; body: how the test body ended.
Collected == [pc |-> "collected", dir |-> "none", browser |-> "none", body |-> ""]

lifeUnchanged == <<pageVars, tmpdir, sessions, proc, shots, mgr>>

\* BaseTest.setup_method `except Exception`: the directory is removed if it
\* was made, the error is raised again; the driver is left as it is.
setup_method_except(t) ==
    [t EXCEPT !.pc = "over", !.dir = IF t.dir = "exists" THEN "removed" ELSE t.dir]

\* self.user_data_dir = self._get_unique_user_data_dir()
setup_method_user_data_dir(pid) ==
    /\ life[pid].pc = "collected"
    /\ life' = [life EXCEPT ![pid] = [@ EXCEPT !.pc = "Chrome", !.dir = "exists"]]
    /\ UNCHANGED lifeUnchanged

\* self.driver = webdriver.Chrome(service=service, options=chrome_options)
setup_method_Chrome(pid) ==
    /\ life[pid].pc = "Chrome"
    /\ \/ life' = [life EXCEPT ![pid] = [@ EXCEPT !.pc = "get", !.browser = "live"]]
       \/ life' = [life EXCEPT ![pid] = setup_method_except(@)]
    /\ UNCHANGED lifeUnchanged

\* self.driver.implicitly_wait(...); self.driver.get(Config.BASE_URL)
setup_method_get(pid) ==
    /\ life[pid].pc = "get"
    /\ \/ life' = [life EXCEPT ![pid].pc = "navigate"]
       \/ life' = [life EXCEPT ![pid] = setup_method_except(@)]
    /\ UNCHANGED lifeUnchanged

\* TestLogin.setup_method after super().setup_method(method): navigate(), the
\* test data file, the log attachment; nothing catches what they raise.
TestLogin_setup_method(pid) ==
    /\ life[pid].pc = "navigate"
    /\ \/ life' = [life EXCEPT ![pid].pc = "call"]
       \/ life' = [life EXCEPT ![pid].pc = "over"]
    /\ UNCHANGED lifeUnchanged

\* The test body passes or fails; pytest goes on to the teardown either way.
test_body(pid) ==
    /\ life[pid].pc = "call"
    /\ \E body \in {"passed", "failed"} :
          life' = [life EXCEPT ![pid] = [@ EXCEPT !.pc = "teardown", !.body = body]]
    /\ UNCHANGED lifeUnchanged

\* TestLogin.teardown_method before super().teardown_method(method): the log
\* file is opened and attached outside any try.
TestLogin_teardown_method(pid) ==
    /\ life[pid].pc = "teardown"
    /\ \/ life' = [life EXCEPT ![pid].pc = "super_teardown"]
       \/ life' = [life EXCEPT ![pid].pc = "over"]
    /\ UNCHANGED lifeUnchanged

\* BaseTest.teardown_method: try driver.quit(), except log, finally rmtree:
\* the directory is removed if it exists, whether driver.quit() returned or
\* raised.
BaseTest_teardown_method(pid) ==
    /\ life[pid].pc = "super_teardown"
    /\ \E quit \in BOOLEAN :
          life' = [life EXCEPT ![pid] =
                     [@ EXCEPT !.pc = "over",
                               !.browser = IF quit THEN "quit" ELSE "quit_failed",
                               !.dir = IF @ = "exists" THEN "removed" ELSE @]]
    /\ UNCHANGED lifeUnchanged

InitLife ==
    /\ app = InitApp(FALSE)
    /\ stack = <<>>
    /\ ret = None
    /\ now = 0
    /\ faults = 0
    /\ test = Idle("none")
    /\ out = None
    /\ obs = NoObs
    /\ log = <<>>
    /\ tmpdir = {}
    /\ sessions = {}
    /\ proc = <<>>
    /\ shots = NoShots
    /\ mgr = <<>>
    /\ life = [pid \in TestPids |-> Collected]

NextLife ==
    \E pid \in TestPids :
        \/ setup_method_user_data_dir(pid)
        \/ setup_method_Chrome(pid)
        \/ setup_method_get(pid)
        \/ TestLogin_setup_method(pid)
        \/ test_body(pid)
        \/ TestLogin_teardown_method(pid)
        \/ BaseTest_teardown_method(pid)

SpecLife == InitLife /\ [][NextLife]_vars

-----------------------------------------------------------------------------
(* Properties *)

Done(op) == test.op = op /\ test.st = "done"

\* C1: is_element_present never raises: whatever the session does (element
\* absent, wait timed out, any other error) the call returns a boolean, and it
\* returns True only when find_element returned an element from its wait.
C1_IsElementPresentNeverRaises ==
    Done("is_element_present") =>
        /\ out.kind = "bool"
        /\ out.val \in BOOLEAN
        /\ out.val => (obs.find = "returned" /\ obs.wait = "value")

\* is_element_present answered False because the session raised an error.
C1_Witness ==
    /\ Done("is_element_present")
    /\ out.kind = "bool" /\ ~out.val
    /\ obs.find = WebDriverException

\* C2: find_elements never fails: it returns an empty list when no matching
\* element became present within the timeout or the session raised an error,
\* and otherwise the (non-empty) list of elements matching the selector.
C2_FindElementsNeverFails ==
    Done("find_elements") =>
        /\ out.kind = "elems"
        /\ obs.wait # "value" => out.val = <<>>
        /\ obs.wait = "value" =>
              /\ out.val # <<>>
              /\ \A i \in 1..Len(out.val) :
                    \E j \in 1..Len(test.sel) : test.sel[j] \in out.val[i].marks

\* find_elements answered [] after its wait timed out.
C2_Witness ==
    /\ Done("find_elements")
    /\ obs.wait = TimeoutException
    /\ out.kind = "elems" /\ out.val = <<>>

\* C3, for a wait that was satisfied or ran out (no poll raised an error): with
\* a timeout T > 0, find_element ends in one of two outcomes, a visible element
\* or the timeout error, also when the timeout handler reads its diagnostics.
C3_FindElementTwoOutcomes ==
    (/\ Done("find_element")
     /\ test.tmo # NoTimeout /\ test.tmo[1] > 0
     /\ obs.wait \in {"value", TimeoutException})
    => \/ out.kind = "elems" /\ out.val[1].displayed
       \/ out.kind = "exc" /\ out.val = TimeoutException

\* C4: a lookup called with timeout=0 invokes its predicate exactly once (the
\* session raising no error).
C4_ZeroTimeoutPollsOnce ==
    (/\ test.op \in {"find_element", "find_elements",
                     "wait_for_element_to_be_clickable", "is_element_present"}
     /\ test.st = "done"
     /\ test.tmo = <<0>>
     /\ faults = 0)
    => obs.polls = 1

C6_LiveProfileDirIsKept ==
    \A s \in sessions :
        /\ s.dir \in tmpdir
        /\ \A t \in sessions : t.dir = s.dir => t = s

C8_LogoutThenNotSuccessful ==
    (/\ Done("is_login_successful")
     /\ test.script = "test_logout" /\ test.step = 4)
    => (out.kind = "bool" /\ ~out.val)

\* C9: after login("invalid", "invalid"), is_login_successful returns False and
\* get_error_message returns a non-empty string, the text of the credentials
\* alert or of the required-field message (the session raising no error).
C9_InvalidLoginReportsError ==
    /\ (Done("is_login_successful") /\ test.script = "test_invalid_login" /\ test.step = 2)
          => (out.kind = "bool" /\ ~out.val)
    /\ (Done("get_error_message") /\ test.script = "test_invalid_login" /\ faults = 0)
          => (out.kind = "text" /\ out.val # <<>> /\ out.val \in {AlertText, RequiredText})

\* C10: is_login_successful never raises; it returns True exactly when its URL
\* wait saw the dashboard marker and find_element then returned the dashboard
\* element, and False on a timeout of either wait and on any session error.
C10_IsLoginSuccessfulNeverRaises ==
    Done("is_login_successful") =>
        /\ out.kind = "bool"
        /\ out.val <=> (obs.url = "seen" /\ obs.find = "returned")
        /\ (faults > 0 \/ obs.wait = TimeoutException) => ~out.val

\* The URL wait saw the dashboard, the dashboard element never showed: False.
C10_Witness ==
    /\ Done("is_login_successful")
    /\ out.kind = "bool" /\ ~out.val
    /\ obs.url = "seen"
    /\ obs.find = TimeoutException

\* C11: navigate(), called once the session is authenticated, invokes logout()
\* and completes without error (the session raising no error).
C11_NavigateLogsOut ==
    (/\ Done("navigate")
     /\ test.script = "navigate_authenticated"
     /\ faults = 0)
    => (/\ out.kind = "void"
        /\ \E i \in 1..Len(log) : log[i] = <<"click", "logout_link">>)

\* The required-field message of a document, if it shows one.
RequiredMessages(a) ==
    SelectSeq(Doc(a), LAMBDA e : ".oxd-input-field-error-message" \in e.marks)

\* The call ran on a document that did not change and no command failed.
Undisturbed == faults = 0 /\ test.app0 = app /\ app.pending = "none"

\* C12: get_error_message returns the first non-empty text, alert before
\* required-field message: when the first match of the alert selector has empty
\* text and a required-field message is displayed, the required-field text is
\* returned; when both have text, the alert text is returned.
C12_FirstNonEmptyText ==
    (/\ Done("get_error_message")
     /\ Undisturbed
     /\ Matches(app, ERROR_MESSAGE) # <<>>
     /\ RequiredMessages(app) # <<>>
     /\ Strip(RequiredMessages(app)[1].text) # <<>>)
    => /\ out.kind = "text"
       /\ out.val = IF Strip(Matches(app, ERROR_MESSAGE)[1].text) = <<>>
                       THEN Strip(RequiredMessages(app)[1].text)
                       ELSE Strip(Matches(app, ERROR_MESSAGE)[1].text)

C14_GetTextNeverRaises ==
    Done("get_text") =>
        /\ out.kind = "text"
        /\ (obs.find # "returned" \/ faults > 0) => out.val = <<>>
        /\ out.val # <<>> => log = <<<<"text", obs.by>>>>
        /\ (obs.find = "returned" /\ Undisturbed) =>
              out.val = Head(Matches(app, test.sel)).text

\* find_element returned the element, reading its text failed: "".
C14_Witness ==
    /\ Done("get_text")
    /\ obs.find = "returned"
    /\ faults > 0
    /\ out.kind = "text" /\ out.val = <<>>

\* Two successive calls of get_text with the same selector have completed; the
\* test issues no navigation between them.
TwoReads ==
    /\ Done("get_text")
    /\ test.prev.op = "get_text"
    /\ test.prev.sel = test.sel

LoginCommands ==
    <<<<"clear", "username">>, <<"send_keys", "username">>,
      <<"clear", "password">>, <<"send_keys", "password">>,
      <<"click", "submit">>>>

\* C16: login fills the username field, fills the password field and clicks
\* the login button, in this order and once each; when a step fails the later
\* steps are not performed and the failure reaches the caller; and login
\* returns normally whatever the credentials are, without checking the outcome.
C16_LoginStepsInOrder ==
    Done("login") =>
        /\ out.kind \in {"void", "exc"}
        /\ Len(log) <= Len(LoginCommands)
        /\ log = SubSeq(LoginCommands, 1, Len(log))
        /\ out.kind = "void" => (log = LoginCommands /\ faults = 0)
        /\ faults > 0 => (out.kind = "exc" /\ out.val = WebDriverException)
        /\ (faults = 0 /\ log = LoginCommands) => out.kind = "void"

\* login with invalid credentials returned normally after all three steps.
C16_Witness ==
    /\ Done("login")
    /\ test.cred = "invalid"
    /\ out.kind = "void"
    /\ log = LoginCommands
    /\ app.last = "invalid"

\* The error type that the specification names for a failed action; the page
\* objects define no error type of their own.
ActionFailed == "ActionFailed"

\* The commands of a complete logout, in order.
LogoutCommands == <<<<"click", "dropdown">>, <<"click", "logout_link">>>>

\* logout() clicks the user dropdown and then the logout link, and the link is
\* not clicked while the dropdown step has not succeeded.
LogoutStepsInOrder ==
    /\ Done("logout") =>
          /\ Len(log) <= Len(LogoutCommands)
          /\ log = SubSeq(LogoutCommands, 1, Len(log))
          /\ out.kind \in {"void", "exc"}
          /\ out.kind = "void" => log = LogoutCommands
    /\ (test.op = "logout" /\ stack # <<>> /\ stack[1].pc = "dropdown") =>
          \A i \in 1..Len(log) : log[i] # <<"click", "logout_link">>

\* C17 as claimed: logout() clicks the user dropdown and then the logout link;
\* the link is never clicked if the dropdown click failed; a failure of either
\* step reaches the caller as an ActionFailed error.
C17_LogoutFailsAsActionFailed ==
    /\ LogoutStepsInOrder
    /\ (Done("logout") /\ out.kind = "exc") => out.val = ActionFailed

\* C17 as amended: ... a failure of either step reaches the caller as the error
\* that was raised: the timeout of the clickability wait, or the error of the
\* session.
C17_LogoutFailsWithCause ==
    /\ LogoutStepsInOrder
    /\ (Done("logout") /\ out.kind = "exc") =>
          /\ out.val \in AllExceptions
          /\ out.val = IF faults > 0 THEN WebDriverException ELSE obs.wait

\* logout() on the login page: the dropdown never becomes clickable, the
\* timeout reaches the caller and nothing was clicked.
C17_Witness ==
    /\ Done("logout")
    /\ test.script = "logout_anonymous"
    /\ out.kind = "exc" /\ out.val = TimeoutException
    /\ log = <<>>

\* click() has just handed an error to its caller.
ClickFailed ==
    /\ stack # <<>>
    /\ Top.fn \in {"logout", "click_login_button"}
    /\ ret.kind = "exc"

\* C18 as claimed: whether the clickability wait timed out or the session's
\* click raised, the error that leaves click() is an ActionFailed.
C18_ClickWrapsActionFailed == ClickFailed => ret.val = ActionFailed

\* C18 as amended: the error that leaves click() is the underlying error
\* itself: what ended the clickability wait, or what the session's click raised.
C18_ClickReraisesCause ==
    ClickFailed =>
        /\ ret.val \in AllExceptions
        /\ obs.wait # "value" => ret.val = obs.wait
        /\ obs.wait = "value" =>
              ret.val \in {WebDriverException, StaleElementReferenceException}

\* The clickability wait was satisfied and the session's click raised.
C18_Witness ==
    /\ ClickFailed
    /\ obs.wait = "value"
    /\ ret.val = WebDriverException

\* C19: wait_for_element_to_be_clickable returns an element only from a poll
\* that found it visible and enabled; when no poll within the timeout does, it
\* fails with the timeout error and returns no element.
C19_ClickableIsVisibleAndEnabled ==
    Done("wait_for_element_to_be_clickable") =>
        /\ out.kind \in {"elems", "exc"}
        /\ out.kind = "elems" =>
              /\ obs.wait = "value"
              /\ Len(out.val) = 1
              /\ out.val[1].id = obs.by
              /\ out.val[1].displayed /\ out.val[1].enabled
              /\ \E j \in 1..Len(test.sel) : test.sel[j] \in out.val[1].marks
        /\ obs.wait # "value" => out.kind = "exc"
        /\ obs.wait = TimeoutException => out.val = TimeoutException

\* The logout link was visible and disabled until the wait timed out.
C19_Witness ==
    /\ Done("wait_for_element_to_be_clickable")
    /\ test.sel = LOGOUT_LINK
    /\ app.menuOpen /\ app.pending = "logout"
    /\ obs.wait = TimeoutException
    /\ out.kind = "exc" /\ out.val = TimeoutException

\* input_text has just returned to login(), which called it for the field
\* its position names.
InputTextReturned ==
    /\ stack # <<>>
    /\ Top.fn = "login" /\ Top.pc \in {"username", "password"}
    /\ ret.kind \in {"void", "exc"}

\* The commands issued on a field, and the text login() passed for it.
FieldLog(id) == SelectSeq(log, LAMBDA c : c[2] = id)
TextFor(id) == IF id = "username" THEN Top.txt[1] ELSE Top.txt[2]

\* C20: input_text looks the element up through the visibility wait, clears it
\* and sends the text, each once and in this order, without retry: when the
\* lookup or the clear fails the text is not sent, and the failure reaches the
\* caller.
C20_InputTextStepsInOrder ==
    InputTextReturned =>
        LET id == Top.pc
            cmds == <<<<"clear", id>>, <<"send_keys", id>>>>
        IN /\ Len(FieldLog(id)) <= 2
           /\ FieldLog(id) = SubSeq(cmds, 1, Len(FieldLog(id)))
           /\ obs.polls >= 1
           /\ ret.kind = "void" =>
                 /\ FieldLog(id) = cmds
                 /\ obs.find = "returned" /\ obs.wait = "value"
                 /\ faults = 0
                 /\ app[Field(id)] = TextFor(id)
           /\ obs.find # "returned" => (ret.kind = "exc" /\ FieldLog(id) = <<>>)
           /\ faults > 0 => (ret.kind = "exc" /\ ret.val = WebDriverException)
           /\ (ret.kind = "exc" /\ TextFor(id) # "") => app[Field(id)] # TextFor(id)

\* The password field was found, clearing it failed, the password was not sent.
C20_Witness ==
    /\ InputTextReturned
    /\ Top.pc = "password"
    /\ ret.kind = "exc"
    /\ obs.find = "returned"
    /\ FieldLog("password") = <<>>
    /\ app.pass = ""

\* The error type that the specification names for a failed capture; the page
\* objects define no error type of their own.
CaptureFailed == "CaptureFailed"

\* C21: take_screenshot(name) makes the screenshot directory if it is missing,
\* captures the viewport and returns the path of a file in that directory whose
\* name is the given name (or 'screenshot') followed by a timestamp; it fails
\* only with CaptureFailed; and so it does when the report hook calls it.
C21_TakeScreenshotReturnsPath ==
    /\ Done("take_screenshot") =>
          \/ /\ out.kind = "path"
             /\ shots.exists
             /\ out.val \in shots.files
             /\ out.val[1] = SCREENSHOT_DIR
             /\ out.val[3] = (IF test.sel = <<>> THEN "screenshot" ELSE test.sel[1])
          \/ out.kind = "exc" /\ out.val = CaptureFailed
    /\ Done("pytest_runtest_makereport") =>
          (out.kind = "exc" => out.val = CaptureFailed)

\* The menu items of a document, in document order.
MenuItems(a) == SelectSeq(Doc(a), LAMBDA e : ".oxd-main-menu-item" \in e.marks)

\* C22: get_menu_items returns the texts of the menu-item elements that the
\* document holds, in document order, and the empty sequence, not an error,
\* when it holds none.
C22_MenuItemsInDocumentOrder ==
    (Done("get_menu_items") /\ Undisturbed) =>
        /\ out.kind = "texts"
        /\ out.val = [i \in 1..Len(MenuItems(app)) |-> MenuItems(app)[i].text]

\* The document shows the welcome element: a displayed match of the value of
\* DashboardPageSelectors.WELCOME_MESSAGE.
WelcomeVisible(a) ==
    LET m == Matches(a, DictValue(DashboardPageSelectors.WELCOME_MESSAGE))
    IN  \E i \in 1..Len(m) : m[i].displayed

\* C23: is_user_logged_in never raises; it returns True when the session is
\* logged in and the dashboard shows the welcome element, and False when the
\* user is not logged in.
C23_LoggedInIsTrue ==
    Done("is_user_logged_in") =>
        /\ out.kind = "bool"
        /\ Undisturbed =>
              IF Contains(app.url, DASHBOARD_MARKER) /\ WelcomeVisible(app)
                 THEN out.val
                 ELSE ~out.val

\* A logged-in session on the rendered dashboard, its user menu closed.
LoggedIn(a) ==
    /\ Contains(a.url, DASHBOARD_MARKER)
    /\ a.rendered /\ ~a.menuOpen
    /\ a.pending = "none"

\* C24: DashboardPage.logout(), called on a logged-in session, clicks the user
\* dropdown and then the logout control, in this order, and leaves the session
\* logged out; it fails only when one of the two clicks fails (here: when the
\* session raised an error).
C24_DashboardLogoutLogsOut ==
    (Done("DashboardPage_logout") /\ LoggedIn(test.app0) /\ faults = 0) =>
        /\ out.kind = "void"
        /\ log = LogoutCommands
        /\ app.last = "logout"

\* The commands that act on the session: navigation, click, clear, send-keys.
ActingCommands == {"get", "click", "clear", "send_keys"}

\* C28: the probing operations are read-only: while one of is_element_present,
\* find_element, find_elements, get_text, get_error_message,
\* is_login_successful, is_user_logged_in runs, and when it has ended with any
\* outcome, it has issued no navigation, click, clear or send-keys, and none is
\* pending on its call stack.
C28_ProbingIsReadOnly ==
    test.op \in ProbingOps =>
        /\ \A i \in 1..Len(log) : log[i][1] \notin ActingCommands
        /\ \A i \in 1..Len(stack) :
              stack[i].fn = "driver" => stack[i].pc \notin ActingCommands

\* After a navigate(), get_text found the username field and did nothing but
\* read its text.
C28_Witness ==
    /\ Done("get_text")
    /\ test.prev.op = "navigate"
    /\ out.kind = "text"
    /\ log = <<<<"text", "username">>>>

\* C26: create_driver selects the driver by browser name: for 'chrome',
\* 'firefox' and 'edge' it creates the matching driver and then applies window
\* size, implicit wait and page-load timeout to it, in this order; any other
\* name fails with the unsupported-browser error (ValueError) and no driver
\* has been created.
C26_DispatchByName ==
    /\ mgr.pc = "returned" =>
          /\ mgr.name \in SupportedBrowsers
          /\ mgr.driver.kind = mgr.name
          /\ mgr.made = mgr.base + 1
          /\ mgr.calls = <<"set_window_size", "implicitly_wait", "set_page_load_timeout">>
          /\ mgr.driver.window = <<1920, 1080>>
          /\ mgr.driver.implicit = IMPLICIT_WAIT
          /\ mgr.driver.pageload = PAGE_LOAD_TIMEOUT
    /\ mgr.driver.kind # "none" =>
          /\ mgr.driver.kind = mgr.name
          /\ mgr.calls = SubSeq(<<"set_window_size", "implicitly_wait",
                                  "set_page_load_timeout">>, 1, Len(mgr.calls))
    /\ (mgr.pc # "idle" /\ mgr.name \notin SupportedBrowsers) =>
          /\ mgr.pc = "raised"
          /\ mgr.exc = ValueError
          /\ mgr.driver = NoDriver
          /\ mgr.made = mgr.base
    /\ (mgr.pc = "raised" /\ mgr.name \in SupportedBrowsers) =>
          mgr.exc = WebDriverException

\* create_driver("Chrome"), not a known name in this case, failed with
\* ValueError and started no browser, after an earlier call had started one.
C26_Witness ==
    /\ mgr.pc = "raised"
    /\ mgr.arg = "Chrome"
    /\ mgr.exc = ValueError
    /\ mgr.made = 1 /\ mgr.base = 1

\* The argument that makes a browser of the kind run headless.
HeadlessArgument(kind) == IF kind = "chrome" THEN "--headless=new" ELSE "--headless"

\* C27: a driver that create_driver created for chrome, firefox or edge was
\* launched with its headless argument if Config.HEADLESS is true, and without
\* it if Config.HEADLESS is false.
C27_HeadlessFollowsConfig ==
    mgr.driver.kind # "none" =>
        (HeadlessArgument(mgr.driver.kind) \in mgr.driver.args <=> mgr.HEADLESS)

\* C25: on every exit path of a test (setup, body or teardown failing at any
\* point, or none failing) the browser session opened for it is released: once
\* the test is over, its browser is not left running and its profile directory
\* is not left in place.
C25_SessionReleasedOnEveryExit ==
    \A pid \in TestPids :
        life[pid].pc = "over" =>
            /\ life[pid].browser # "live"
            /\ life[pid].dir # "exists"

====
